---- MODULE Spec2Model ----
(***************************************************************************)
(* Library catalogue (authors and books): the book-search request handler  *)
(* GET /api/books/search, with the record store it queries.                *)
(*                                                                         *)
(* Text that the code takes apart (parseInt, contains) is a sequence of    *)
(* one-character strings; text that the code only compares is a string.    *)
(* An optional value is <<>> when absent/null and <<v>> when present.      *)
(* A JavaScript number is a record: Num(n), NaN or PosInf.                 *)
(***************************************************************************)
EXTENDS Integers, Sequences, FiniteSets, TLC

\* The record store: its rows and the sequences its ids are drawn from.
VARIABLES authors, books, authorSeq, bookSeq

\* GET /api/books/search: one request in progress.
VARIABLES pc, request, local, findManyArgs, error, response

\* GET /api/authors/{id}/stats: one request in progress.
VARIABLES statsPc, statsId, statsLocal, statsFindManyArgs, statsError, statsResponse

\* The answer to the last create, update or delete request.
VARIABLES crudResponse

\* The Pagination component: its props and the page numbers it renders.
VARIABLES paginationProps, pages

\* The books page: its state, the pending debounce timers, the search
\* requests awaiting their response, the last request issued, the number of
\* requests issued and the last alert shown.
VARIABLES booksPage, timers, fetches, lastRequest, issued, alert

\* The forms of a page: the page that is open, its state, the handler that
\* is running and the requests the page has sent.
VARIABLES formPage, form, handler, sent

storeVars == <<authors, books, authorSeq, bookSeq>>

searchVars == <<pc, request, local, findManyArgs, error, response>>

statsVars ==
    <<statsPc, statsId, statsLocal, statsFindManyArgs, statsError, statsResponse>>

paginationVars == <<paginationProps, pages>>

\* The variables of the pages and their components.
booksPageVars == <<booksPage, timers, fetches, lastRequest, issued, alert>>

formVars == <<formPage, form, handler, sent>>

uiVars == <<paginationVars, booksPageVars, formVars>>

vars == <<storeVars, searchVars, statsVars, crudResponse, uiVars>>

\* What a step of the search handler leaves alone besides its own variables.
nonSearchVars == <<authorSeq, bookSeq, statsVars, crudResponse, uiVars>>

(* ------------------------------ bounds -------------------------------- *)

\* Most books in the store.
MaxBooks == 3

\* Most authors ever created.
MaxAuthors == 2

\* Most pages a result has.
MaxPages == 14

\* Most pages a result shown on the books page has.
MaxShownPages == 2

\* Most search requests the books page issues.
MaxRequests == 2

\* Most requests a page with forms sends.
MaxSent == 3

(* --------------------------- optional values -------------------------- *)

None == <<>>

Some(v) == <<v>>

IsSome(o) == o # <<>>

Get(o) == o[1]

\* a || b on strings: the empty string and null are falsy.
OrElse(o, d) == IF IsSome(o) /\ Get(o) # <<>> THEN Get(o) ELSE d

OrElseStr(o, d) == IF IsSome(o) /\ Get(o) # "" THEN Get(o) ELSE d

(* --------------------------- JavaScript numbers ----------------------- *)

Num(n) == [k |-> "num", v |-> n]

NaN == [k |-> "nan", v |-> 0]

PosInf == [k |-> "inf", v |-> 1]

IsNum(x) == x.k = "num"

\* Math.min(a, 50): NaN when an argument is NaN.
MathMin(a, b) ==
    IF ~IsNum(a) \/ ~IsNum(b) THEN NaN
    ELSE IF a.v < b.v THEN a ELSE b

\* (page - 1) * limit
JsSub(a, b) == IF IsNum(a) /\ IsNum(b) THEN Num(a.v - b.v) ELSE NaN

JsMul(a, b) == IF IsNum(a) /\ IsNum(b) THEN Num(a.v * b.v) ELSE NaN

\* a < b: false when an operand is NaN; every number is below Infinity.
JsLt(a, b) ==
    IF a.k = "nan" \/ b.k = "nan" THEN FALSE
    ELSE IF a.k = "inf" THEN FALSE
    ELSE IF b.k = "inf" THEN TRUE
    ELSE a.v < b.v

JsGt(a, b) == JsLt(b, a)

\* Rounds the quotient down instead of up.
MathCeilDiv_floor(total, limit) ==
    IF ~IsNum(limit) THEN NaN
    ELSE IF limit.v = 0 THEN (IF total = 0 THEN NaN ELSE PosInf)
    ELSE IF limit.v > 0 THEN Num(total \div limit.v)
    ELSE Num(0 - ((total + (0 - limit.v) - 1) \div (0 - limit.v)))

\* Math.ceil(total / limit) for an integer total >= 0.
MathCeilDiv(total, limit) ==
    IF ~IsNum(limit) THEN NaN
    ELSE IF limit.v = 0 THEN (IF total = 0 THEN NaN ELSE PosInf)
    ELSE IF limit.v > 0 THEN Num((total + limit.v - 1) \div limit.v)
    ELSE Num(0 - (total \div (0 - limit.v)))

(* ------------------------------- parseInt ----------------------------- *)

Digits == {"0", "1", "2", "3", "4", "5", "6", "7", "8", "9"}

DigitVal(c) ==
    CASE c = "0" -> 0 [] c = "1" -> 1 [] c = "2" -> 2 [] c = "3" -> 3
      [] c = "4" -> 4 [] c = "5" -> 5 [] c = "6" -> 6 [] c = "7" -> 7
      [] c = "8" -> 8 [] c = "9" -> 9

RECURSIVE StripLeft(_)
StripLeft(s) == IF s # <<>> /\ Head(s) = " " THEN StripLeft(Tail(s)) ELSE s

\* Value of the longest prefix of decimal digits, given the value so far.
RECURSIVE DigitRun(_, _)
DigitRun(s, acc) ==
    IF s # <<>> /\ Head(s) \in Digits
    THEN DigitRun(Tail(s), acc * 10 + DigitVal(Head(s)))
    ELSE acc

\* parseInt(s) without a radix, on decimal text: leading blanks are skipped,
\* one sign is accepted, digits are read up to the first other character,
\* and the result is NaN when no digit was read.
parseInt(s) ==
    LET t == StripLeft(s)
        neg == t # <<>> /\ Head(t) = "-"
        u == IF t # <<>> /\ Head(t) \in {"-", "+"} THEN Tail(t) ELSE t
    IN  IF u = <<>> \/ Head(u) \notin Digits THEN NaN
        ELSE IF neg THEN Num(0 - DigitRun(u, 0)) ELSE Num(DigitRun(u, 0))

(* ------------------------------- text --------------------------------- *)

\* Lower-case form of a character (the store's case-insensitive mode).
Lower(c) == CASE c = "A" -> "a" [] c = "B" -> "b" [] OTHER -> c

LowerStr(s) == [i \in 1..Len(s) |-> Lower(s[i])]

\* Code point of a character of the model's alphabet.
Code(c) == CASE c = "A" -> 65 [] c = "B" -> 66 [] c = "a" -> 97 [] c = "b" -> 98

\* s contains t as a contiguous run (the empty text is contained in all).
Contains(s, t) ==
    \E i \in 0..(Len(s) - Len(t)) : SubSeq(s, i + 1, i + Len(t)) = t

\* { contains: t, mode: 'insensitive' }
ContainsInsensitive(s, t) == Contains(LowerStr(s), LowerStr(t))

\* s <= t in code-point order.
RECURSIVE StrLeq(_, _)
StrLeq(s, t) ==
    IF s = <<>> THEN TRUE
    ELSE IF t = <<>> THEN FALSE
    ELSE IF Head(s) # Head(t) THEN Code(Head(s)) < Code(Head(t))
    ELSE StrLeq(Tail(s), Tail(t))

(* ---------------------------- record store ---------------------------- *)

Author1 ==
    [id |-> 1, name |-> <<"A", "b">>, email |-> "a1@x", bio |-> None,
     nationality |-> Some("ES"), birthYear |-> Some(1)]

Author2 ==
    [id |-> 2, name |-> <<"B">>, email |-> "a2@x", bio |-> Some("bio"),
     nationality |-> None, birthYear |-> None]

\* The field values a book is created with.
BookShapes ==
    { [title |-> <<"A", "b">>, genre |-> Some(<<"a">>), publishedYear |-> Some(2),
       pages |-> Some(2), authorId |-> 1],
      [title |-> <<"b">>, genre |-> None, publishedYear |-> Some(1),
       pages |-> None, authorId |-> 2],
      [title |-> <<"a">>, genre |-> Some(<<"A">>), publishedYear |-> None,
       pages |-> Some(1), authorId |-> 1] }

\* A Book row: the i-th created book has id i and creation time i.
Book(i, shape) ==
    [id |-> i, title |-> shape.title, genre |-> shape.genre,
     publishedYear |-> shape.publishedYear, pages |-> shape.pages,
     authorId |-> shape.authorId, createdAt |-> i]

AuthorOf(b) == CHOOSE a \in authors : a.id = b.authorId

\* Leaves the author key of where out of the match.
Matches_noAuthor(where, b) ==
    /\ "title" \in DOMAIN where => ContainsInsensitive(b.title, where["title"])
    /\ "genre" \in DOMAIN where => b.genre = Some(where["genre"])

\* A where object is a function from the keys that were set to their values.
Matches(where, b) ==
    /\ "title" \in DOMAIN where => ContainsInsensitive(b.title, where["title"])
    /\ "genre" \in DOMAIN where => b.genre = Some(where["genre"])
    /\ "author" \in DOMAIN where =>
           ContainsInsensitive(AuthorOf(b).name, where["author"])

Matching(where) == {b \in books : Matches(where, b)}

\* prisma.book.count({ where })
BookCount(where) == Cardinality(Matching(where))

\* a sorts at or before b, ascending, on the given field; a null year is
\* below every year when nullsLow and above every year otherwise.
KeyLeq(a, b, field, nullsLow) ==
    CASE field = "title" -> StrLeq(a.title, b.title)
      [] field = "createdAt" -> a.createdAt <= b.createdAt
      [] field = "publishedYear" ->
            IF ~IsSome(a.publishedYear) THEN nullsLow \/ ~IsSome(b.publishedYear)
            ELSE IF ~IsSome(b.publishedYear) THEN ~nullsLow
            ELSE Get(a.publishedYear) <= Get(b.publishedYear)

\* orderBy: { [field]: order }
InOrder(a, b, field, order, nullsLow) ==
    IF order = "asc" THEN KeyLeq(a, b, field, nullsLow)
    ELSE KeyLeq(b, a, field, nullsLow)

\* Every arrangement of the rows of S that respects the ordering; rows with
\* equal keys come in any order.
Ordered(S, field, order, nullsLow) ==
    { s \in [1..Cardinality(S) -> S] :
        /\ \A i, j \in DOMAIN s : i # j => s[i] # s[j]
        /\ \A i, j \in DOMAIN s : i < j => InOrder(s[i], s[j], field, order, nullsLow) }

Max(a, b) == IF a > b THEN a ELSE b

Min(a, b) == IF a < b THEN a ELSE b

\* skip / take on an ordered result: a take >= 0 counts from the start, a
\* negative take counts from the end, after skipping.
Window(s, skip, take) ==
    IF take >= 0 THEN SubSeq(s, skip + 1, Min(Len(s), skip + take))
    ELSE SubSeq(s, Max(1, Len(s) - skip + take + 1), Len(s) - skip)

\* include: { author: { select: { id, name, email, nationality } } }
WithAuthor(b) ==
    [id |-> b.id, title |-> b.title, genre |-> b.genre,
     publishedYear |-> b.publishedYear, pages |-> b.pages,
     authorId |-> b.authorId, createdAt |-> b.createdAt,
     author |-> [id |-> AuthorOf(b).id, name |-> AuthorOf(b).name,
                 email |-> AuthorOf(b).email,
                 nationality |-> AuthorOf(b).nationality]]

\* The store rejects a skip or take that is not an integer, and a skip < 0.
ValidFindMany(args) ==
    /\ IsNum(args.skip) /\ IsNum(args.take)
    /\ args.skip.v >= 0

\* prisma.book.findMany(args): the results the store may return.
BookFindMany(args) ==
    { [i \in DOMAIN Window(s, args.skip.v, args.take.v) |->
          WithAuthor(Window(s, args.skip.v, args.take.v)[i])] :
      s \in UNION { Ordered(Matching(args.where), args.orderBy.field,
                            args.orderBy.order, nl) : nl \in BOOLEAN } }

(* ------------------------------ requests ------------------------------ *)

\* Values a query parameter may carry when it is present.
ParamValues ==
    [search |-> {<<>>, <<"a">>, <<"B">>},
     genre |-> {<<>>, <<"a">>, <<"A">>},
     authorName |-> {<<>>, <<"a">>, <<"B">>},
     page |-> {<<"0">>, <<"2">>, <<"3">>, <<"-", "1">>, <<"x">>},
     limit |-> {<<"0">>, <<"1">>, <<"2">>, <<"-", "1">>, <<"a", "b", "c">>,
                <<"5", "0">>, <<"5", "1">>, <<"1", "0", "0", "0">>},
     sortBy |-> {"title", "publishedYear", "createdAt", "invalidField", ""},
     order |-> {"asc", "desc", "ASC", ""}]

\* A parameter that is absent, or present with one of the values.
Opt(S) == {None} \cup {Some(v) : v \in S}

\* searchParams without any parameter.
NoParams ==
    [search |-> None, genre |-> None, authorName |-> None, page |-> None,
     limit |-> None, sortBy |-> None, order |-> None]

\* Requests that vary the page and the limit, with and without a filter.
PagingRequests ==
    { [NoParams EXCEPT !.page = p, !.limit = l, !.search = s] :
        p \in Opt(ParamValues.page), l \in Opt(ParamValues.limit),
        s \in {None, Some(<<"B">>)} }

\* Requests that vary the three filters.
FilterRequests ==
    { [NoParams EXCEPT !.search = s, !.genre = g, !.authorName = a] :
        s \in Opt(ParamValues.search), g \in Opt(ParamValues.genre),
        a \in Opt(ParamValues.authorName) }

\* Requests that vary the sort field and order, on whole and on paged results.
SortRequests ==
    { [NoParams EXCEPT !.sortBy = f, !.order = o, !.limit = l, !.page = p] :
        f \in Opt(ParamValues.sortBy), o \in Opt(ParamValues.order),
        l \in {None, Some(<<"2">>)}, p \in {None, Some(<<"2">>)} }

\* searchParams of the requests the handler is given.
Requests == PagingRequests \cup FilterRequests \cup SortRequests

(* ------------------------- GET /api/books/search ---------------------- *)

validSortFields == {"title", "publishedYear", "createdAt"}

\* The requested limit taken as it is, without the cap.
limitOf_uncapped(q) == parseInt(OrElse(q.limit, <<"1", "0">>))

\* limit = Math.min(parseInt(searchParams.get('limit') || '10'), 50)
limitOf(q) == MathMin(parseInt(OrElse(q.limit, <<"1", "0">>)), Num(50))

\* page = parseInt(searchParams.get('page') || '1')
pageOf(q) == parseInt(OrElse(q.page, <<"1">>))

\* Falls back to title instead of createdAt.
sortFieldOf_titleDefault(q) ==
    LET sortBy == OrElseStr(q.sortBy, "createdAt")
    IN  IF sortBy \in validSortFields THEN sortBy ELSE "title"

\* sortField = validSortFields.includes(sortBy) ? sortBy : 'createdAt'
sortFieldOf(q) ==
    LET sortBy == OrElseStr(q.sortBy, "createdAt")
    IN  IF sortBy \in validSortFields THEN sortBy ELSE "createdAt"

\* Ascending unless the order is exactly 'desc'.
sortOrderOf_ascDefault(q) ==
    LET order == OrElseStr(q.order, "desc")
    IN  IF order = "desc" THEN "desc" ELSE "asc"

\* sortOrder = order === 'asc' ? 'asc' : 'desc'
sortOrderOf(q) ==
    LET order == OrElseStr(q.order, "desc")
    IN  IF order = "asc" THEN "asc" ELSE "desc"

\* Sets the genre key whenever the genre parameter is present, empty or not.
whereOf_emptyGenre(q) ==
    LET search == OrElse(q.search, <<>>)
        genre == OrElse(q.genre, <<>>)
        authorName == OrElse(q.authorName, <<>>)
        keys == (IF search # <<>> THEN {"title"} ELSE {})
                \cup (IF IsSome(q.genre) THEN {"genre"} ELSE {})
                \cup (IF authorName # <<>> THEN {"author"} ELSE {})
    IN  [k \in keys |-> CASE k = "title" -> search
                          [] k = "genre" -> genre
                          [] k = "author" -> authorName]

\* where: a key is set only for a filter whose text is not empty.
whereOf(q) ==
    LET search == OrElse(q.search, <<>>)
        genre == OrElse(q.genre, <<>>)
        authorName == OrElse(q.authorName, <<>>)
        keys == (IF search # <<>> THEN {"title"} ELSE {})
                \cup (IF genre # <<>> THEN {"genre"} ELSE {})
                \cup (IF authorName # <<>> THEN {"author"} ELSE {})
    IN  [k \in keys |-> CASE k = "title" -> search
                          [] k = "genre" -> genre
                          [] k = "author" -> authorName]

\* skip = (page - 1) * limit
skipOf(page, limit) == JsMul(JsSub(page, Num(1)), limit)

\* hasNext also on the last page, hasPrev also on the first.
paginationOf_offByOne(page, limit, total) ==
    LET totalPages == MathCeilDiv(total, limit)
        hasNext == ~JsGt(page, totalPages) /\ page.k # "nan" /\ totalPages.k # "nan"
        hasPrev == ~JsLt(page, Num(1)) /\ page.k # "nan"
    IN  [page |-> page, limit |-> limit, total |-> total,
         totalPages |-> totalPages, hasNext |-> hasNext, hasPrev |-> hasPrev]

\* The pagination object of a successful response.
paginationOf(page, limit, total) ==
    LET totalPages == MathCeilDiv(total, limit)
        hasNext == JsLt(page, totalPages)
        hasPrev == JsGt(page, Num(1))
    IN  [page |-> page, limit |-> limit, total |-> total,
         totalPages |-> totalPages, hasNext |-> hasNext, hasPrev |-> hasPrev]

okResponse(books_, pagination) ==
    [status |-> 200, body |-> [data |-> books_, pagination |-> pagination]]

\* catch (error): { error: 'Error al buscar libros' }, status 500
errorResponse == [status |-> 500, body |-> [error |-> "Error al buscar libros"]]

\* Lines 6-55: read the parameters, build where, compute skip.
SearchParse(q) ==
    /\ pc = "idle"
    /\ request' = Some(q)
    /\ local' = [page |-> pageOf(q), limit |-> limitOf(q),
                 sortField |-> sortFieldOf(q), sortOrder |-> sortOrderOf(q),
                 where |-> whereOf(q),
                 skip |-> skipOf(pageOf(q), limitOf(q)),
                 total |-> None]
    /\ findManyArgs' = None
    /\ error' = "none"
    /\ response' = None
    /\ pc' = "count"
    /\ UNCHANGED <<authors, books>>
    /\ UNCHANGED nonSearchVars

\* Line 58: total = await prisma.book.count({ where }).
SearchCount ==
    /\ pc = "count"
    /\ local' = [local EXCEPT !.total = Some(BookCount(local.where))]
    /\ pc' = "findMany"
    /\ UNCHANGED <<authors, books, request, findManyArgs, error, response>>
    /\ UNCHANGED nonSearchVars

\* Line 58 when the store cannot be reached: the catch block answers.
SearchCountFails ==
    /\ pc = "count"
    /\ error' = "StoreUnreachable"
    /\ response' = Some(errorResponse)
    /\ pc' = "done"
    /\ UNCHANGED <<authors, books, request, local, findManyArgs>>
    /\ UNCHANGED nonSearchVars

findManyArgsOf(l) ==
    [where |-> l.where,
     orderBy |-> [field |-> l.sortField, order |-> l.sortOrder],
     skip |-> l.skip, take |-> l.limit]

\* Lines 61-95: fetch the page and answer with data and pagination.
SearchFindMany ==
    /\ pc = "findMany"
    /\ findManyArgs' = Some(findManyArgsOf(local))
    /\ ValidFindMany(findManyArgsOf(local))
    /\ \E rows \in BookFindMany(findManyArgsOf(local)) :
          response' = Some(okResponse(rows,
                         paginationOf(local.page, local.limit, Get(local.total))))
    /\ pc' = "done"
    /\ UNCHANGED <<authors, books, request, local, error>>
    /\ UNCHANGED nonSearchVars

\* Answers a failed fetch with the count already obtained and no rows.
SearchFindManyFails_partial ==
    /\ pc = "findMany"
    /\ findManyArgs' = Some(findManyArgsOf(local))
    /\ \/ ~ValidFindMany(findManyArgsOf(local)) /\ error' = "StoreValidation"
       \/ error' = "StoreUnreachable"
    /\ response' = Some(okResponse(<<>>,
                       paginationOf(local.page, local.limit, Get(local.total))))
    /\ pc' = "done"
    /\ UNCHANGED <<authors, books, request, local>>
    /\ UNCHANGED nonSearchVars

\* Lines 61-78 when the store throws: arguments it rejects, or unreachable.
SearchFindManyFails ==
    /\ pc = "findMany"
    /\ findManyArgs' = Some(findManyArgsOf(local))
    /\ \/ ~ValidFindMany(findManyArgsOf(local)) /\ error' = "StoreValidation"
       \/ error' = "StoreUnreachable"
    /\ response' = Some(errorResponse)
    /\ pc' = "done"
    /\ UNCHANGED <<authors, books, request, local>>
    /\ UNCHANGED nonSearchVars

\* The response has been sent; the handler's locals are gone.
SearchReturn ==
    /\ pc = "done"
    /\ pc' = "idle"
    /\ request' = None
    /\ local' = None
    /\ findManyArgs' = None
    /\ error' = "none"
    /\ response' = None
    /\ UNCHANGED <<authors, books>>
    /\ UNCHANGED nonSearchVars

\* No Pagination component is mounted.
PaginationIdle ==
    /\ paginationProps = <<>>
    /\ pages = <<>>

\* The books page is not open.
BooksPageIdle ==
    /\ booksPage = <<>>
    /\ timers = {}
    /\ fetches = {}
    /\ lastRequest = <<>>
    /\ issued = 0
    /\ alert = "none"

\* No page with forms is open.
FormsIdle ==
    /\ formPage = "none"
    /\ form = <<>>
    /\ handler = <<>>
    /\ sent = <<>>

\* No page is open.
UiIdle == PaginationIdle /\ BooksPageIdle /\ FormsIdle

\* No stats request is in progress.
StatsIdle ==
    /\ statsPc = "idle"
    /\ statsId = None
    /\ statsLocal = None
    /\ statsFindManyArgs = None
    /\ statsError = "none"
    /\ statsResponse = None

(* ---------------------------- specification --------------------------- *)

Init ==
    /\ authors = {Author1, Author2}
    /\ \E n \in 0..MaxBooks : \E f \in [1..n -> BookShapes] :
          books = {Book(i, f[i]) : i \in 1..n}
    /\ pc = "idle"
    /\ request = None
    /\ local = None
    /\ findManyArgs = None
    /\ error = "none"
    /\ response = None
    /\ authorSeq = 2
    /\ bookSeq = Cardinality(books)
    /\ StatsIdle
    /\ crudResponse = None
    /\ UiIdle

Next ==
    \/ \E q \in Requests : SearchParse(q)
    \/ SearchCount
    \/ SearchCountFails
    \/ SearchFindMany
    \/ SearchFindManyFails
    \/ SearchReturn

Spec == Init /\ [][Next]_vars

(* ------------------------------ properties ---------------------------- *)

Answered == pc = "done"

Succeeded == pc = "done" /\ Get(response).status = 200

Pagination == Get(response).body.pagination

Data == Get(response).body.data

\* The text of a parameter as the handler receives it; absent reads as empty.
ParamText(o) == IF IsSome(o) THEN Get(o) ELSE <<>>

\* C1: in a successful search response whose limit is in 1..50, totalPages
\* is the ceiling of total / limit (the least n with n * limit >= total),
\* and totalPages is 0 exactly when total is 0.
C1_TotalPagesIsCeiling ==
    (Succeeded /\ IsNum(Pagination.limit) /\ Pagination.limit.v \in 1..50) =>
        /\ IsNum(Pagination.totalPages)
        /\ Pagination.total >= 0
        /\ Pagination.totalPages.v * Pagination.limit.v >= Pagination.total
        /\ (Pagination.totalPages.v - 1) * Pagination.limit.v < Pagination.total
        /\ (Pagination.totalPages.v = 0 <=> Pagination.total = 0)

\* Three books on pages of two make two pages.
C1_Witness ==
    /\ Succeeded
    /\ Pagination.limit = Num(2)
    /\ Pagination.total = 3
    /\ Pagination.totalPages = Num(2)

\* C2: in a successful search response with page >= 1, hasNext is true
\* exactly when page is below totalPages, and hasPrev exactly when page is
\* above 1.
C2_HasNextHasPrev ==
    (Succeeded /\ IsNum(Pagination.page) /\ Pagination.page.v >= 1) =>
        /\ Pagination.hasNext <=>
              \/ Pagination.totalPages = PosInf
              \/ /\ IsNum(Pagination.totalPages)
                 /\ Pagination.page.v < Pagination.totalPages.v
        /\ Pagination.hasPrev <=> Pagination.page.v > 1

\* Page 2 of 3: both flags set; and a last page with a previous one.
C2_Witness ==
    /\ Succeeded
    /\ Pagination.page = Num(2)
    /\ Pagination.totalPages = Num(3)
    /\ Pagination.hasNext
    /\ Pagination.hasPrev

\* C3: whatever limit is requested, the limit the handler computes, passes
\* to the store as take and reports in pagination.limit never exceeds 50.
C3_LimitAtMost50 ==
    /\ pc # "idle" => ~JsGt(local.limit, Num(50))
    /\ IsSome(findManyArgs) => ~JsGt(Get(findManyArgs).take, Num(50))
    /\ Succeeded => ~JsGt(Pagination.limit, Num(50)) /\ Len(Data) <= 50

\* limit=1000 is answered with pagination.limit = 50.
C3_Witness ==
    /\ Succeeded
    /\ Get(request).limit = Some(<<"1", "0", "0", "0">>)
    /\ Get(findManyArgs).take = Num(50)
    /\ Pagination.limit = Num(50)

\* C4: whatever limit is requested (0, a negative number and non-numeric
\* text included), the limit the handler computes, passes to the store as
\* take and reports in pagination.limit is a number that is at least 1.
C4_LimitAtLeastOne ==
    /\ pc # "idle" => IsNum(local.limit) /\ local.limit.v >= 1
    /\ IsSome(findManyArgs) =>
          IsNum(Get(findManyArgs).take) /\ Get(findManyArgs).take.v >= 1
    /\ Succeeded => IsNum(Pagination.limit) /\ Pagination.limit.v >= 1

\* The page a request asks for, with a non-positive one read as page 1.
C5_PageFromOne(page) == IF page.v < 1 THEN 1 ELSE page.v

\* C5: whatever page is requested, a non-positive page counts as page 1:
\* for a numeric page and a limit in 1..50, the skip passed to the store is
\* (page - 1) * limit with page >= 1, and it is never negative.
C5_SkipNeverNegative ==
    (/\ IsSome(findManyArgs)
     /\ IsNum(local.page)
     /\ IsNum(local.limit) /\ local.limit.v \in 1..50) =>
        /\ IsNum(Get(findManyArgs).skip)
        /\ Get(findManyArgs).skip.v >= 0
        /\ Get(findManyArgs).skip.v = (C5_PageFromOne(local.page) - 1) * local.limit.v

\* A book satisfies every filter the request provides: a filter counts as
\* provided when its parameter is present and not the empty text.
SatisfiesFilters(q, b) ==
    /\ ParamText(q.search) # <<>> =>
          \E i \in 0..(Len(b.title) - Len(ParamText(q.search))) :
             LowerStr(SubSeq(b.title, i + 1, i + Len(ParamText(q.search))))
                = LowerStr(ParamText(q.search))
    /\ ParamText(q.genre) # <<>> =>
          IsSome(b.genre) /\ Get(b.genre) = ParamText(q.genre)
    /\ ParamText(q.authorName) # <<>> =>
          \E a \in authors :
             /\ a.id = b.authorId
             /\ \E i \in 0..(Len(a.name) - Len(ParamText(q.authorName))) :
                   LowerStr(SubSeq(a.name, i + 1, i + Len(ParamText(q.authorName))))
                      = LowerStr(ParamText(q.authorName))

\* The sort field and order a request is entitled to.
EffectiveSortField(q) ==
    IF q.sortBy \in {Some("title"), Some("publishedYear"), Some("createdAt")}
    THEN Get(q.sortBy) ELSE "createdAt"

EffectiveSortOrder(q) == IF q.order = Some("asc") THEN "asc" ELSE "desc"

\* The ids of the rows of a result, in order.
Ids(rows) == [i \in DOMAIN rows |-> rows[i].id]

\* rows is positions offset+1 .. offset+limit of some arrangement of the
\* set M in the given order.
IsPageOf(rows, M, field, order, offset, limit) ==
    \E nl \in BOOLEAN : \E s \in Ordered(M, field, order, nl) :
        Ids(rows) = [i \in 1..(Min(Len(s), offset + limit) - offset) |-> s[offset + i].id]

\* C6: over an unchanging store, a successful search response has total
\* equal to the number of books satisfying all provided filters, and data
\* equal to positions offset .. offset+limit-1 of the matching books sorted
\* by the effective field in the effective order: at most limit books, each
\* satisfying every provided filter.
C6_TotalAndPage ==
    Succeeded =>
        LET q == Get(request)
            M == {b \in books : SatisfiesFilters(q, b)}
        IN  /\ Pagination.total = Cardinality(M)
            /\ Len(Data) <= Pagination.limit.v
            /\ \A i \in DOMAIN Data : \E b \in M : b.id = Data[i].id
            /\ IsPageOf(Data, M, EffectiveSortField(q), EffectiveSortOrder(q),
                        Get(findManyArgs).skip.v, Pagination.limit.v)

\* The filters a request provides: present and not the empty text.
ProvidedFilters(q) ==
    {n \in {"search", "genre", "authorName"} : IsSome(q[n]) /\ Get(q[n]) # <<>>}

\* The where key each filter parameter constrains.
WhereKey(n) ==
    CASE n = "search" -> "title" [] n = "genre" -> "genre" [] n = "authorName" -> "author"

\* C7: the filter is the conjunction of exactly the provided filters: where
\* has a key for each of them and no other, the count is the number of
\* books satisfying all of them, and with none provided every book counts.
C7_FiltersAreAnded ==
    /\ pc # "idle" =>
          DOMAIN local.where = {WhereKey(n) : n \in ProvidedFilters(Get(request))}
    /\ (pc # "idle" /\ IsSome(local.total)) =>
          /\ Get(local.total)
                = Cardinality({b \in books : SatisfiesFilters(Get(request), b)})
          /\ ProvidedFilters(Get(request)) = {} => Get(local.total) = Cardinality(books)
    /\ Succeeded =>
          \A i \in DOMAIN Data :
             \E b \in books : b.id = Data[i].id /\ SatisfiesFilters(Get(request), b)

\* Two filters together select fewer books than either does alone.
C7_Witness ==
    /\ Succeeded
    /\ ProvidedFilters(Get(request)) = {"search", "authorName"}
    /\ Pagination.total = 1
    /\ Cardinality({b \in books :
          SatisfiesFilters([Get(request) EXCEPT !.authorName = None], b)}) = 2
    /\ Cardinality({b \in books :
          SatisfiesFilters([Get(request) EXCEPT !.search = None], b)}) = 2

\* rows come in the given order on the given field.
IsSortedBy(rows, field, order) ==
    \E nl \in BOOLEAN :
        \A i, j \in DOMAIN rows : i < j => InOrder(rows[i], rows[j], field, order, nl)

\* C8: a sortBy outside {title, publishedYear, createdAt}, or none, sorts by
\* createdAt, and one inside sorts by that field; the handler answers 200
\* unless a store call threw.
C8_SortFieldAllowList ==
    /\ pc # "idle" =>
          /\ Get(request).sortBy \in {Some(f) : f \in {"title", "publishedYear", "createdAt"}}
                => local.sortField = Get(Get(request).sortBy)
          /\ Get(request).sortBy \notin {Some(f) : f \in {"title", "publishedYear", "createdAt"}}
                => local.sortField = "createdAt"
    /\ IsSome(findManyArgs) =>
          Get(findManyArgs).orderBy.field = EffectiveSortField(Get(request))
    /\ (Answered /\ error = "none") =>
          /\ Get(response).status = 200
          /\ IsSortedBy(Data, EffectiveSortField(Get(request)), local.sortOrder)

\* sortBy=invalidField answered 200 with three books, newest first.
C8_Witness ==
    /\ Succeeded
    /\ Get(request).sortBy = Some("invalidField")
    /\ Len(Data) = 3
    /\ Data[1].createdAt > Data[2].createdAt
    /\ Data[2].createdAt > Data[3].createdAt
    /\ StrLeq(Data[1].title, Data[2].title) /\ Data[1].title # Data[2].title

\* C9: only an order of exactly 'asc' sorts ascending; absent, empty, 'ASC'
\* or any other text sorts descending.
C9_OrderAscOnlyIfAsc ==
    /\ pc # "idle" =>
          (local.sortOrder = "asc" <=> Get(request).order = Some("asc"))
    /\ pc # "idle" =>
          (local.sortOrder = "desc" <=> Get(request).order # Some("asc"))
    /\ IsSome(findManyArgs) =>
          Get(findManyArgs).orderBy.order = EffectiveSortOrder(Get(request))
    /\ Succeeded =>
          IsSortedBy(Data, local.sortField, EffectiveSortOrder(Get(request)))

\* order=ASC is answered in descending order of creation.
C9_Witness ==
    /\ Succeeded
    /\ Get(request).order = Some("ASC")
    /\ Len(Data) >= 2
    /\ Data[1].createdAt > Data[2].createdAt

\* C10: when the count or the fetch fails, the response is status 500 with a
\* body of one field, error, a text; data and pagination appear only when
\* both store calls succeeded.
C10_FailureIsWhole ==
    /\ (Answered /\ error # "none") =>
          /\ Get(response).status = 500
          /\ DOMAIN Get(response).body = {"error"}
          /\ Get(response).body.error = "Error al buscar libros"
    /\ (Answered /\ DOMAIN Get(response).body # {"error"}) =>
          /\ error = "none"
          /\ Get(response).status = 200
          /\ DOMAIN Get(response).body = {"data", "pagination"}
          /\ IsSome(local.total) /\ IsSome(findManyArgs)

\* The count succeeded with two books, then the fetch failed: a bare 500.
C10_Witness ==
    /\ Answered
    /\ error = "StoreUnreachable"
    /\ local.total = Some(2)
    /\ IsSome(findManyArgs)
    /\ Get(response).status = 500

(* ---------------------- GET /api/authors/{id}/stats ------------------- *)

\* What a step of the stats handler leaves alone besides its own variables.
nonStatsVars == <<storeVars, searchVars, crudResponse, uiVars>>

\* The field values of the books the stats are computed over.
StatsBookShapes ==
    { [title |-> <<"A", "b">>, genre |-> Some(<<"a">>), publishedYear |-> Some(2),
       pages |-> Some(2), authorId |-> 1],
      [title |-> <<"b">>, genre |-> None, publishedYear |-> Some(1),
       pages |-> None, authorId |-> 1],
      [title |-> <<"a">>, genre |-> Some(<<"A">>), publishedYear |-> None,
       pages |-> Some(1), authorId |-> 1],
      [title |-> <<"B">>, genre |-> Some(<<>>), publishedYear |-> Some(2),
       pages |-> Some(2), authorId |-> 1],
      [title |-> <<"b", "a">>, genre |-> Some(<<"a">>), publishedYear |-> Some(1),
       pages |-> Some(3), authorId |-> 2] }

\* Ids a stats request may name; the last one belongs to no author.
StatsIds == {1, 2, 3}

\* prisma.author.findUnique({ where: { id }, select: { id, name } })
AuthorFindUnique(id) ==
    IF \E a \in authors : a.id = id
    THEN Some([id |-> id, name |-> (CHOOSE a \in authors : a.id = id).name])
    ELSE None

\* select: { id, title, publishedYear, pages, genre }
StatsRow(b) ==
    [id |-> b.id, title |-> b.title, publishedYear |-> b.publishedYear,
     pages |-> b.pages, genre |-> b.genre]

\* prisma.book.findMany({ where: { authorId: id }, orderBy: { publishedYear:
\* 'asc' } }): the results the store may return.
StatsFindManyResults(id) ==
    { [i \in DOMAIN s |-> StatsRow(s[i])] :
      s \in UNION { Ordered({b \in books : b.authorId = id}, "publishedYear", "asc", nl) :
                    nl \in BOOLEAN } }

\* books.filter(book => book.publishedYear !== null)
booksWithYear(bs) == SelectSeq(bs, LAMBDA b : IsSome(b.publishedYear))

\* books.filter(book => book.pages !== null)
booksWithPages(bs) == SelectSeq(bs, LAMBDA b : IsSome(b.pages))

firstBookOf(bs) ==
    IF Len(booksWithYear(bs)) > 0
    THEN Some([title |-> booksWithYear(bs)[1].title,
               year |-> Get(booksWithYear(bs)[1].publishedYear)])
    ELSE None

latestBookOf(bs) ==
    IF Len(booksWithYear(bs)) > 0
    THEN Some([title |-> booksWithYear(bs)[Len(booksWithYear(bs))].title,
               year |-> Get(booksWithYear(bs)[Len(booksWithYear(bs))].publishedYear)])
    ELSE None

\* book.pages || 0
PagesOrZero(b) == IF IsSome(b.pages) THEN Get(b.pages) ELSE 0

\* reduce((sum, book) => sum + (book.pages || 0), 0)
RECURSIVE SumPages(_)
SumPages(bs) == IF bs = <<>> THEN 0 ELSE PagesOrZero(Head(bs)) + SumPages(Tail(bs))

\* Drops the fraction instead of rounding.
MathRound_floor(sum, n) == sum \div n

\* Math.round(sum / n) for n > 0: the nearest integer, a half going up.
MathRound(sum, n) == (2 * sum + n) \div (2 * n)

averagePagesOf(bs) ==
    IF Len(booksWithPages(bs)) > 0
    THEN MathRound(SumPages(booksWithPages(bs)), Len(booksWithPages(bs)))
    ELSE 0

\* Array.from(new Set(list)): the first occurrence of each value, in order.
RECURSIVE Dedupe(_)
Dedupe(list) ==
    IF list = <<>> THEN <<>>
    ELSE LET rest == Dedupe(SubSeq(list, 1, Len(list) - 1))
             last == list[Len(list)]
         IN  IF \E i \in DOMAIN rest : rest[i] = last THEN rest
             ELSE Append(rest, last)

\* x put in its place in the sorted list, after the values equal to it.
RECURSIVE InsertSorted(_, _)
InsertSorted(x, list) ==
    IF list = <<>> THEN <<x>>
    ELSE IF StrLeq(Head(list), x) THEN <<Head(list)>> \o InsertSorted(x, Tail(list))
    ELSE <<x>> \o list

\* list.sort(): ascending by code units.
RECURSIVE SortStrings(_)
SortStrings(list) ==
    IF list = <<>> THEN <<>>
    ELSE InsertSorted(list[Len(list)], SortStrings(SubSeq(list, 1, Len(list) - 1)))

\* books.filter(book => book.genre).map(book => book.genre): null and the
\* empty string are falsy.
TruthyGenres(bs) ==
    LET kept == SelectSeq(bs, LAMBDA b : IsSome(b.genre) /\ Get(b.genre) # <<>>)
    IN  [i \in DOMAIN kept |-> Get(kept[i].genre)]

\* The genres in first-seen order, not sorted.
genresOf_unsorted(bs) == Dedupe(TruthyGenres(bs))

genresOf(bs) == SortStrings(Dedupe(TruthyGenres(bs)))

\* A later book with the same pages replaces the one held.
RECURSIVE ReduceLongest_lastWins(_, _)
ReduceLongest_lastWins(max, bs) ==
    IF bs = <<>> THEN max
    ELSE ReduceLongest_lastWins(
            IF PagesOrZero(Head(bs)) >= PagesOrZero(max) THEN Head(bs) ELSE max,
            Tail(bs))

\* reduce((max, book) => (book.pages || 0) > (max.pages || 0) ? book : max)
RECURSIVE ReduceLongest(_, _)
ReduceLongest(max, bs) ==
    IF bs = <<>> THEN max
    ELSE ReduceLongest(
            IF PagesOrZero(Head(bs)) > PagesOrZero(max) THEN Head(bs) ELSE max,
            Tail(bs))

\* reduce((min, book) => (book.pages || 0) < (min.pages || 0) ? book : min)
RECURSIVE ReduceShortest(_, _)
ReduceShortest(min, bs) ==
    IF bs = <<>> THEN min
    ELSE ReduceShortest(
            IF PagesOrZero(Head(bs)) < PagesOrZero(min) THEN Head(bs) ELSE min,
            Tail(bs))

\* { title, pages } of a book
BookPages(b) == [title |-> b.title, pages |-> Get(b.pages)]

longestBookOf(bs) ==
    IF Len(booksWithPages(bs)) > 0
    THEN Some(BookPages(ReduceLongest(Head(booksWithPages(bs)), Tail(booksWithPages(bs)))))
    ELSE None

shortestBookOf(bs) ==
    IF Len(booksWithPages(bs)) > 0
    THEN Some(BookPages(ReduceShortest(Head(booksWithPages(bs)), Tail(booksWithPages(bs)))))
    ELSE None

\* Reports an average of one page for an author without books.
emptyStats_avgOne(author) ==
    [authorId |-> author.id, authorName |-> author.name, totalBooks |-> 0,
     firstBook |-> None, latestBook |-> None, averagePages |-> 1,
     genres |-> <<>>, longestBook |-> None, shortestBook |-> None]

\* Lines 43-55: the stats of an author without books.
emptyStats(author) ==
    [authorId |-> author.id, authorName |-> author.name, totalBooks |-> 0,
     firstBook |-> None, latestBook |-> None, averagePages |-> 0,
     genres |-> <<>>, longestBook |-> None, shortestBook |-> None]

\* The latest book taken from the front of the list, like the first.
statsOf_latestIsFirst(author, bs) ==
    [authorId |-> author.id, authorName |-> author.name, totalBooks |-> Len(bs),
     firstBook |-> firstBookOf(bs), latestBook |-> firstBookOf(bs),
     averagePages |-> averagePagesOf(bs), genres |-> genresOf(bs),
     longestBook |-> longestBookOf(bs), shortestBook |-> shortestBookOf(bs)]

\* The page figures taken over the books that have a year only.
statsOf_pagesNeedYear(author, bs) ==
    [authorId |-> author.id, authorName |-> author.name, totalBooks |-> Len(bs),
     firstBook |-> firstBookOf(bs), latestBook |-> latestBookOf(bs),
     averagePages |-> averagePagesOf(booksWithYear(bs)), genres |-> genresOf(bs),
     longestBook |-> longestBookOf(booksWithYear(bs)),
     shortestBook |-> shortestBookOf(booksWithYear(bs))]

\* Lines 57-130: the stats of an author with books.
statsOf(author, bs) ==
    [authorId |-> author.id, authorName |-> author.name, totalBooks |-> Len(bs),
     firstBook |-> firstBookOf(bs), latestBook |-> latestBookOf(bs),
     averagePages |-> averagePagesOf(bs), genres |-> genresOf(bs),
     longestBook |-> longestBookOf(bs), shortestBook |-> shortestBookOf(bs)]

statsNotFound == [status |-> 404, body |-> [error |-> "Autor no encontrado"]]

statsFailed ==
    [status |-> 500, body |-> [error |-> "Error al obtener estadisticas del autor"]]

\* Lines 9-18: the author exists; the handler goes on to fetch the books.
StatsFindUnique(id) ==
    /\ statsPc = "idle"
    /\ IsSome(AuthorFindUnique(id))
    /\ statsId' = Some(id)
    /\ statsLocal' = [author |-> Get(AuthorFindUnique(id)), books |-> None]
    /\ statsPc' = "findMany"
    /\ UNCHANGED <<statsFindManyArgs, statsError, statsResponse>>
    /\ UNCHANGED nonStatsVars

\* Answers a missing author with the stats of an author without books.
StatsNotFound_zeroed(id) ==
    /\ statsPc = "idle"
    /\ ~IsSome(AuthorFindUnique(id))
    /\ statsId' = Some(id)
    /\ statsLocal' = [author |-> None, books |-> Some(<<>>)]
    /\ statsFindManyArgs' = Some([where |-> [authorId |-> id]])
    /\ statsResponse' =
          Some([status |-> 200, body |-> emptyStats([id |-> id, name |-> <<>>])])
    /\ statsPc' = "done"
    /\ UNCHANGED statsError
    /\ UNCHANGED nonStatsVars

\* Lines 9-25: no author has the id; 404 without fetching any book.
StatsNotFound(id) ==
    /\ statsPc = "idle"
    /\ ~IsSome(AuthorFindUnique(id))
    /\ statsId' = Some(id)
    /\ statsLocal' = [author |-> None, books |-> None]
    /\ statsResponse' = Some(statsNotFound)
    /\ statsPc' = "done"
    /\ UNCHANGED <<statsFindManyArgs, statsError>>
    /\ UNCHANGED nonStatsVars

\* Line 12 when the store cannot be reached: the catch block answers.
StatsFindUniqueFails(id) ==
    /\ statsPc = "idle"
    /\ statsId' = Some(id)
    /\ statsLocal' = [author |-> None, books |-> None]
    /\ statsError' = "StoreUnreachable"
    /\ statsResponse' = Some(statsFailed)
    /\ statsPc' = "done"
    /\ UNCHANGED statsFindManyArgs
    /\ UNCHANGED nonStatsVars

\* Lines 28-130: fetch the author's books and answer with the stats.
StatsFindMany ==
    /\ statsPc = "findMany"
    /\ statsFindManyArgs' = Some([where |-> [authorId |-> Get(statsId)]])
    /\ \E bs \in StatsFindManyResults(Get(statsId)) :
          /\ statsLocal' = [statsLocal EXCEPT !.books = Some(bs)]
          /\ statsResponse' =
                Some([status |-> 200,
                      body |-> IF Len(bs) = 0 THEN emptyStats(statsLocal.author)
                               ELSE statsOf(statsLocal.author, bs)])
    /\ statsPc' = "done"
    /\ UNCHANGED <<statsId, statsError>>
    /\ UNCHANGED nonStatsVars

\* Line 28 when the store cannot be reached: the catch block answers.
StatsFindManyFails ==
    /\ statsPc = "findMany"
    /\ statsFindManyArgs' = Some([where |-> [authorId |-> Get(statsId)]])
    /\ statsError' = "StoreUnreachable"
    /\ statsResponse' = Some(statsFailed)
    /\ statsPc' = "done"
    /\ UNCHANGED <<statsId, statsLocal>>
    /\ UNCHANGED nonStatsVars

\* The response has been sent; the handler's locals are gone.
StatsReturn ==
    /\ statsPc = "done"
    /\ statsPc' = "idle"
    /\ statsId' = None
    /\ statsLocal' = None
    /\ statsFindManyArgs' = None
    /\ statsError' = "none"
    /\ statsResponse' = None
    /\ UNCHANGED nonStatsVars

\* No search request is in progress.
SearchIdle ==
    /\ pc = "idle"
    /\ request = None
    /\ local = None
    /\ findManyArgs = None
    /\ error = "none"
    /\ response = None

\* Stats requests over a store holding up to MaxBooks books.
InitStats ==
    /\ authors = {Author1, Author2}
    /\ \E n \in 0..MaxBooks : \E f \in [1..n -> StatsBookShapes] :
          books = {Book(i, f[i]) : i \in 1..n}
    /\ authorSeq = 2
    /\ bookSeq = Cardinality(books)
    /\ SearchIdle
    /\ StatsIdle
    /\ crudResponse = None
    /\ UiIdle

NextStats ==
    \/ \E id \in StatsIds : StatsFindUnique(id)
    \/ \E id \in StatsIds : StatsNotFound(id)
    \/ \E id \in StatsIds : StatsFindUniqueFails(id)
    \/ StatsFindMany
    \/ StatsFindManyFails
    \/ StatsReturn

SpecStats == InitStats /\ [][NextStats]_vars

(* ------------------------ properties of the stats --------------------- *)

StatsAnswered == statsPc = "done"

StatsSucceeded == statsPc = "done" /\ Get(statsResponse).status = 200

StatsBody == Get(statsResponse).body

\* The books of the author the request names, as the store holds them.
AuthorBooks == {b \in books : b.authorId = Get(statsId)}

\* The books fetched for the request, in the order the store returned them.
Fetched == Get(statsLocal.books)

YearsOf(S) == {Get(b.publishedYear) : b \in {x \in S : IsSome(x.publishedYear)}}

PagesOf(S) == {Get(b.pages) : b \in {x \in S : IsSome(x.pages)}}

RECURSIVE PageTotal(_)
PageTotal(S) ==
    IF S = {} THEN 0
    ELSE LET b == CHOOSE x \in S : TRUE
         IN  (IF IsSome(b.pages) THEN Get(b.pages) ELSE 0) + PageTotal(S \ {b})

\* C13: for an existing author without books the stats are totalBooks 0,
\* firstBook, latestBook, longestBook and shortestBook null, averagePages 0
\* and an empty genres list.
C13_EmptyStats ==
    (StatsSucceeded /\ AuthorBooks = {}) =>
        /\ StatsBody.totalBooks = 0
        /\ StatsBody.firstBook = None
        /\ StatsBody.latestBook = None
        /\ StatsBody.averagePages = 0
        /\ StatsBody.genres = <<>>
        /\ StatsBody.longestBook = None
        /\ StatsBody.shortestBook = None

\* An author without books in a store that holds books of another author.
C13_Witness ==
    /\ StatsSucceeded
    /\ AuthorBooks = {}
    /\ books # {}
    /\ StatsBody.authorId = 2

\* C14: firstBook and latestBook are null when no book of the author has a
\* year; otherwise their years are the least and the greatest year, and
\* each title is that of a book of the author with that year.
C14_FirstAndLatest ==
    StatsSucceeded =>
        IF YearsOf(AuthorBooks) = {}
        THEN StatsBody.firstBook = None /\ StatsBody.latestBook = None
        ELSE /\ IsSome(StatsBody.firstBook) /\ IsSome(StatsBody.latestBook)
             /\ \A y \in YearsOf(AuthorBooks) :
                   /\ Get(StatsBody.firstBook).year <= y
                   /\ Get(StatsBody.latestBook).year >= y
             /\ \E b \in AuthorBooks :
                   /\ b.publishedYear = Some(Get(StatsBody.firstBook).year)
                   /\ b.title = Get(StatsBody.firstBook).title
             /\ \E b \in AuthorBooks :
                   /\ b.publishedYear = Some(Get(StatsBody.latestBook).year)
                   /\ b.title = Get(StatsBody.latestBook).title

\* Years 1 and 2 and a book without a year: first is 1, latest is 2.
C14_Witness ==
    /\ StatsSucceeded
    /\ \E b \in AuthorBooks : ~IsSome(b.publishedYear)
    /\ IsSome(StatsBody.firstBook) /\ Get(StatsBody.firstBook).year = 1
    /\ IsSome(StatsBody.latestBook) /\ Get(StatsBody.latestBook).year = 2

\* C15: averagePages is the mean of pages over the author's books that have
\* pages, rounded to a nearest integer, and 0 when no book has pages.
C15_AveragePages ==
    StatsSucceeded =>
        LET withPages == {b \in AuthorBooks : IsSome(b.pages)}
            n == Cardinality(withPages)
            diff == n * StatsBody.averagePages - PageTotal(withPages)
        IN  IF n = 0 THEN StatsBody.averagePages = 0
            ELSE 2 * diff <= n /\ 2 * (0 - diff) <= n

\* Pages 2, 2 and 1 average 5/3, reported as 2.
C15_Witness ==
    /\ StatsSucceeded
    /\ Cardinality({b \in AuthorBooks : IsSome(b.pages)}) = 3
    /\ PageTotal(AuthorBooks) = 5
    /\ StatsBody.averagePages = 2

\* Position of the first fetched book that has the given pages.
FirstWithPages(p) ==
    CHOOSE i \in DOMAIN Fetched :
        /\ Fetched[i].pages = Some(p)
        /\ \A j \in DOMAIN Fetched : j < i => Fetched[j].pages # Some(p)

\* C16: longestBook is the first fetched book with the most pages and
\* shortestBook the first fetched book with the fewest, among the books
\* that have pages; both are null when no book has pages.
C16_LongestAndShortest ==
    StatsSucceeded =>
        IF PagesOf(AuthorBooks) = {}
        THEN StatsBody.longestBook = None /\ StatsBody.shortestBook = None
        ELSE LET most == CHOOSE p \in PagesOf(AuthorBooks) :
                            \A r \in PagesOf(AuthorBooks) : r <= p
                 fewest == CHOOSE p \in PagesOf(AuthorBooks) :
                            \A r \in PagesOf(AuthorBooks) : r >= p
             IN  /\ StatsBody.longestBook =
                       Some([title |-> Fetched[FirstWithPages(most)].title,
                             pages |-> most])
                 /\ StatsBody.shortestBook =
                       Some([title |-> Fetched[FirstWithPages(fewest)].title,
                             pages |-> fewest])

\* Two books of different titles share the most pages; the first fetched
\* one is reported.
C16_Witness ==
    /\ StatsSucceeded
    /\ IsSome(StatsBody.longestBook)
    /\ \E i, j \in DOMAIN Fetched :
          /\ i < j
          /\ Fetched[i].pages = Some(Get(StatsBody.longestBook).pages)
          /\ Fetched[j].pages = Some(Get(StatsBody.longestBook).pages)
          /\ Fetched[i].title # Fetched[j].title
          /\ Fetched[i].title = Get(StatsBody.longestBook).title
    /\ \E b \in AuthorBooks :
          IsSome(b.pages) /\ Get(b.pages) < Get(StatsBody.longestBook).pages

\* C17: the genres list is in strictly ascending order, so sorted and free
\* of duplicates, and every entry is the genre of a book that has one, so
\* never null.
C17_GenresSortedUnique ==
    StatsSucceeded =>
        /\ \A i, j \in DOMAIN StatsBody.genres :
              i < j => /\ StrLeq(StatsBody.genres[i], StatsBody.genres[j])
                       /\ StatsBody.genres[i] # StatsBody.genres[j]
        /\ \A i \in DOMAIN StatsBody.genres :
              \E b \in AuthorBooks : b.genre = Some(StatsBody.genres[i])

\* Fetched genres a, a, A (and a book without genre or not) come out as A, a.
C17_Witness ==
    /\ StatsSucceeded
    /\ StatsBody.genres = << <<"A">>, <<"a">> >>
    /\ Fetched[1].genre = Some(<<"a">>)
    /\ Cardinality({b \in AuthorBooks : b.genre = Some(<<"a">>)}) = 2

\* C18: the values in the genres list are exactly the non-null genre values
\* of the author's books, the empty string included.
C18_GenresAreAllNonNull ==
    StatsSucceeded =>
        {StatsBody.genres[i] : i \in DOMAIN StatsBody.genres}
           = {Get(b.genre) : b \in {x \in AuthorBooks : IsSome(x.genre)}}

C20_NotFoundAndFailure ==
    /\ (StatsAnswered /\ statsError = "none"
          /\ ~\E a \in authors : a.id = Get(statsId)) =>
          /\ Get(statsResponse).status = 404
          /\ DOMAIN StatsBody = {"error"}
          /\ statsFindManyArgs = None
          /\ statsLocal.books = None
    /\ (StatsAnswered /\ statsError # "none") =>
          /\ Get(statsResponse).status = 500
          /\ DOMAIN StatsBody = {"error"}
    /\ (StatsAnswered /\ Get(statsResponse).status = 404) =>
          ~\E a \in authors : a.id = Get(statsId)

\* Id 3 names no author: 404, with books in the store and none fetched.
C20_Witness ==
    /\ StatsAnswered
    /\ statsId = Some(3)
    /\ books # {}
    /\ Get(statsResponse).status = 404
    /\ statsFindManyArgs = None

(* --------------- create, update and delete of authors and books ------- *)

\* What a create, update or delete leaves alone.
nonCrudVars == <<searchVars, statsVars, uiVars>>

\* The fields an author form posts; the last one lacks the required name.
AuthorForms ==
    { [name |-> Author1.name, email |-> Author1.email, bio |-> Author1.bio,
       nationality |-> Author1.nationality, birthYear |-> Author1.birthYear],
      [name |-> Author2.name, email |-> Author2.email, bio |-> Author2.bio,
       nationality |-> Author2.nationality, birthYear |-> Author2.birthYear],
      [name |-> <<>>, email |-> Author2.email, bio |-> None,
       nationality |-> None, birthYear |-> None] }

ValidAuthorForm(f) == f.name # <<>> /\ f.email # ""

AuthorRow(id, f) ==
    [id |-> id, name |-> f.name, email |-> f.email, bio |-> f.bio,
     nationality |-> f.nationality, birthYear |-> f.birthYear]

AuthorExists(id) == \E a \in authors : a.id = id

AuthorById(id) == CHOOSE a \in authors : a.id = id

BookExists(id) == \E b \in books : b.id = id

BookById(id) == CHOOSE b \in books : b.id = id

\* The answer to a create, update or delete: the name of a deleted author
\* and the number of books deleted with it are kept for a successful
\* DELETE /authors/{id}.
CrudAnswer(op, status, id) ==
    [op |-> op, status |-> status, id |-> id, name |-> <<>>, removed |-> 0]

\* POST /authors
AuthorCreate(f) ==
    /\ authorSeq < MaxAuthors
    /\ IF ValidAuthorForm(f)
       THEN /\ authors' = authors \cup {AuthorRow(authorSeq + 1, f)}
            /\ authorSeq' = authorSeq + 1
            /\ crudResponse' = Some(CrudAnswer("POST author", 201, authorSeq + 1))
       ELSE /\ UNCHANGED <<authors, authorSeq>>
            /\ crudResponse' = Some(CrudAnswer("POST author", 400, 0))
    /\ UNCHANGED <<books, bookSeq>>
    /\ UNCHANGED nonCrudVars

\* PUT /authors/{id}
AuthorUpdate(id, f) ==
    /\ IF ~ValidAuthorForm(f)
       THEN /\ UNCHANGED authors
            /\ crudResponse' = Some(CrudAnswer("PUT author", 400, id))
       ELSE IF ~AuthorExists(id)
       THEN /\ UNCHANGED authors
            /\ crudResponse' = Some(CrudAnswer("PUT author", 404, id))
       ELSE /\ authors' = (authors \ {AuthorById(id)}) \cup {AuthorRow(id, f)}
            /\ crudResponse' = Some(CrudAnswer("PUT author", 200, id))
    /\ UNCHANGED <<books, authorSeq, bookSeq>>
    /\ UNCHANGED nonCrudVars

\* Deletes the author row and leaves its books in place.
AuthorDelete_noCascade(id) ==
    /\ IF AuthorExists(id)
       THEN /\ authors' = authors \ {AuthorById(id)}
            /\ UNCHANGED books
            /\ crudResponse' =
                  Some([CrudAnswer("DELETE author", 200, id) EXCEPT
                          !.name = AuthorById(id).name,
                          !.removed = Cardinality({b \in books : b.authorId = id})])
       ELSE /\ UNCHANGED <<authors, books>>
            /\ crudResponse' = Some(CrudAnswer("DELETE author", 404, id))
    /\ UNCHANGED <<authorSeq, bookSeq>>
    /\ UNCHANGED nonCrudVars

\* DELETE /authors/{id}: the author goes, and all of its books with it.
AuthorDelete(id) ==
    /\ IF AuthorExists(id)
       THEN /\ authors' = authors \ {AuthorById(id)}
            /\ books' = {b \in books : b.authorId # id}
            /\ crudResponse' =
                  Some([CrudAnswer("DELETE author", 200, id) EXCEPT
                          !.name = AuthorById(id).name,
                          !.removed = Cardinality({b \in books : b.authorId = id})])
       ELSE /\ UNCHANGED <<authors, books>>
            /\ crudResponse' = Some(CrudAnswer("DELETE author", 404, id))
    /\ UNCHANGED <<authorSeq, bookSeq>>
    /\ UNCHANGED nonCrudVars

\* POST /books: the authorId must name an author.
BookCreate(shape) ==
    /\ bookSeq < MaxBooks
    /\ IF shape.title # <<>> /\ AuthorExists(shape.authorId)
       THEN /\ books' = books \cup {Book(bookSeq + 1, shape)}
            /\ bookSeq' = bookSeq + 1
            /\ crudResponse' = Some(CrudAnswer("POST book", 201, bookSeq + 1))
       ELSE /\ UNCHANGED <<books, bookSeq>>
            /\ crudResponse' = Some(CrudAnswer("POST book", 400, 0))
    /\ UNCHANGED <<authors, authorSeq>>
    /\ UNCHANGED nonCrudVars

\* PUT /books/{id}: the fields are replaced; id and creation time stay.
BookUpdate(id, shape) ==
    /\ IF ~(shape.title # <<>> /\ AuthorExists(shape.authorId))
       THEN /\ UNCHANGED books
            /\ crudResponse' = Some(CrudAnswer("PUT book", 400, id))
       ELSE IF ~BookExists(id)
       THEN /\ UNCHANGED books
            /\ crudResponse' = Some(CrudAnswer("PUT book", 404, id))
       ELSE /\ books' = (books \ {BookById(id)})
                           \cup {[Book(id, shape) EXCEPT !.createdAt = BookById(id).createdAt]}
            /\ crudResponse' = Some(CrudAnswer("PUT book", 200, id))
    /\ UNCHANGED <<authors, authorSeq, bookSeq>>
    /\ UNCHANGED nonCrudVars

\* DELETE /books/{id}
BookDelete(id) ==
    /\ IF BookExists(id)
       THEN /\ books' = books \ {BookById(id)}
            /\ crudResponse' = Some(CrudAnswer("DELETE book", 200, id))
       ELSE /\ UNCHANGED books
            /\ crudResponse' = Some(CrudAnswer("DELETE book", 404, id))
    /\ UNCHANGED <<authors, authorSeq, bookSeq>>
    /\ UNCHANGED nonCrudVars

\* The last request deleted an author.
AuthorJustDeleted ==
    /\ IsSome(crudResponse)
    /\ Get(crudResponse).op = "DELETE author"
    /\ Get(crudResponse).status = 200

\* GET /books/search?authorName=<the name of the author just deleted>
SearchDeletedAuthor ==
    /\ AuthorJustDeleted
    /\ SearchParse([NoParams EXCEPT !.authorName = Some(Get(crudResponse).name)])

\* An empty store.
InitCrud ==
    /\ authors = {}
    /\ books = {}
    /\ authorSeq = 0
    /\ bookSeq = 0
    /\ SearchIdle
    /\ StatsIdle
    /\ crudResponse = None
    /\ UiIdle

\* Requests are handled one after another: creates, updates and deletes,
\* and after the delete of an author a search for its name.
NextCrud ==
    \/ pc = "idle" /\ \E f \in AuthorForms : AuthorCreate(f)
    \/ pc = "idle" /\ \E id \in 1..MaxAuthors, f \in AuthorForms : AuthorUpdate(id, f)
    \/ pc = "idle" /\ \E id \in 1..MaxAuthors : AuthorDelete(id)
    \/ pc = "idle" /\ \E shape \in BookShapes : BookCreate(shape)
    \/ pc = "idle" /\ \E id \in 1..MaxBooks, shape \in BookShapes : BookUpdate(id, shape)
    \/ pc = "idle" /\ \E id \in 1..MaxBooks : BookDelete(id)
    \/ SearchDeletedAuthor
    \/ SearchCount
    \/ SearchCountFails
    \/ SearchFindMany
    \/ SearchFindManyFails
    \/ SearchReturn

SpecCrud == InitCrud /\ [][NextCrud]_vars

(* --------------- properties of deletes -------------------------------- *)

\* C11: every book's authorId names an author of the store, so after the
\* delete of an author none of its books is left.
C11_NoBookWithoutAuthor ==
    /\ \A b \in books : \E a \in authors : a.id = b.authorId
    /\ AuthorJustDeleted /\ pc = "idle" =>
          \A b \in books : b.authorId # Get(crudResponse).id

\* An author that had books was deleted, and another author's books stay.
C11_Witness ==
    /\ AuthorJustDeleted
    /\ pc = "idle"
    /\ Get(crudResponse).removed > 0
    /\ books # {}

\* The search that follows the delete of an author, for that author's name.
DeletedAuthorSearched ==
    /\ Succeeded
    /\ AuthorJustDeleted
    /\ Get(request).authorName = Some(Get(crudResponse).name)

\* The authors left whose name contains the deleted author's name.
Namesakes ==
    {a \in authors : ContainsInsensitive(a.name, Get(crudResponse).name)}

\* C12 as stated: after the delete of author A, a search filtered by A's
\* name finds nothing, whatever else the store holds.
C12_SearchFindsNothing ==
    DeletedAuthorSearched => Pagination.total = 0

\* C12: after the delete of author A, a search filtered by A's name returns
\* no book of A; its total is the number of books of the authors left whose
\* name contains A's name, which is 0 when there is no such author.
C12_SearchFindsNoBookOfDeleted ==
    DeletedAuthorSearched =>
        /\ \A i \in 1..Len(Data) : Data[i].authorId # Get(crudResponse).id
        /\ Pagination.total =
              Cardinality({b \in books : \E a \in Namesakes : a.id = b.authorId})
        /\ Namesakes = {} => Pagination.total = 0 /\ Data = <<>>

\* An author with books was deleted, books of another author are left, and
\* the search for the deleted name finds none.
C12_Witness ==
    /\ DeletedAuthorSearched
    /\ Get(crudResponse).removed > 0
    /\ books # {}
    /\ Namesakes = {}
    /\ Pagination.total = 0

(* --------------- properties of paging over an unchanging store -------- *)

\* What the store returns for the same query with page + 1.
NextPageRows ==
    BookFindMany([findManyArgsOf(local) EXCEPT
                     !.skip = skipOf(Num(local.page.v + 1), local.limit)])

\* C26: in a successful search response over an unchanging store, hasNext
\* implies that the same query with page + 1 returns at least one book, and
\* for a page above totalPages data is empty and hasNext is false.
C26_HasNextMeansMore ==
    Succeeded =>
        /\ Pagination.hasNext => \A rows \in NextPageRows : Len(rows) >= 1
        /\ JsGt(Pagination.page, Pagination.totalPages) =>
              Data = <<>> /\ ~Pagination.hasNext

(* --------------- the Pagination component ----------------------------- *)

nonPaginationVars ==
    <<storeVars, searchVars, statsVars, crudResponse, booksPageVars, formVars>>

maxPagesToShow == 5

\* Math.max(1, currentPage - Math.floor(maxPagesToShow / 2))
firstStartPage(currentPage) == Max(1, currentPage - (maxPagesToShow \div 2))

\* Math.min(totalPages, startPage + maxPagesToShow - 1)
endPageOf(currentPage, totalPages) ==
    Min(totalPages, firstStartPage(currentPage) + maxPagesToShow - 1)

\* Keeps the first start page when the window comes out short.
startPageOf_noShift(currentPage, totalPages) == firstStartPage(currentPage)

\* The start page after the window has been moved back to hold five pages.
startPageOf(currentPage, totalPages) ==
    IF endPageOf(currentPage, totalPages) - firstStartPage(currentPage) + 1
          < maxPagesToShow
    THEN Max(1, endPageOf(currentPage, totalPages) - maxPagesToShow + 1)
    ELSE firstStartPage(currentPage)

\* for (let i = startPage; i <= endPage; i++) pages.push(i)
pagesOf(currentPage, totalPages) ==
    [i \in 1..(endPageOf(currentPage, totalPages)
                 - startPageOf(currentPage, totalPages) + 1) |->
        startPageOf(currentPage, totalPages) + i - 1]

PropsOf(currentPage, totalPages) ==
    [currentPage |-> currentPage, totalPages |-> totalPages,
     hasNext |-> currentPage < totalPages, hasPrev |-> currentPage > 1]

\* The page numbers of the buttons a click can land on.
Buttons ==
    LET p == Get(paginationProps)
        w == Get(pages)
    IN  {w[i] : i \in DOMAIN w}
        \cup (IF p.hasPrev THEN {p.currentPage - 1} ELSE {})
        \cup (IF p.hasNext THEN {p.currentPage + 1} ELSE {})
        \cup (IF startPageOf(p.currentPage, p.totalPages) > 1 THEN {1} ELSE {})
        \cup (IF endPageOf(p.currentPage, p.totalPages) < p.totalPages
              THEN {p.totalPages} ELSE {})

\* The component is rendered with its props.
PaginationRender(currentPage, totalPages) ==
    /\ paginationProps = None
    /\ paginationProps' = Some(PropsOf(currentPage, totalPages))
    /\ pages' = Some(pagesOf(currentPage, totalPages))
    /\ UNCHANGED nonPaginationVars

\* onPageChange(page): the parent renders the component again for the page.
PaginationClick(page) ==
    /\ IsSome(paginationProps)
    /\ page \in Buttons
    /\ paginationProps' = Some(PropsOf(page, Get(paginationProps).totalPages))
    /\ pages' = Some(pagesOf(page, Get(paginationProps).totalPages))
    /\ UNCHANGED nonPaginationVars

PaginationUnmount ==
    /\ IsSome(paginationProps)
    /\ paginationProps' = None
    /\ pages' = None
    /\ UNCHANGED nonPaginationVars

InitPagination ==
    /\ authors = {}
    /\ books = {}
    /\ authorSeq = 0
    /\ bookSeq = 0
    /\ SearchIdle
    /\ StatsIdle
    /\ crudResponse = None
    /\ UiIdle

NextPagination ==
    \/ \E totalPages \in 1..MaxPages : \E currentPage \in 1..totalPages :
          PaginationRender(currentPage, totalPages)
    \/ \E page \in 0..(MaxPages + 1) : PaginationClick(page)
    \/ PaginationUnmount

SpecPagination == InitPagination /\ [][NextPagination]_vars

\* C27: for totalPages >= 1 and currentPage in 1..totalPages the numbered
\* window is a run of consecutive page numbers of length min(5, totalPages),
\* lies within 1..totalPages and contains currentPage.
C27_WindowOfFive ==
    IsSome(paginationProps) =>
        LET p == Get(paginationProps)
            w == Get(pages)
        IN  p.totalPages >= 1 /\ p.currentPage \in 1..p.totalPages =>
              /\ Len(w) = Min(5, p.totalPages)
              /\ \A i \in 1..(Len(w) - 1) : w[i + 1] = w[i] + 1
              /\ \A i \in DOMAIN w : w[i] \in 1..p.totalPages
              /\ \E i \in DOMAIN w : w[i] = p.currentPage

\* The last of more than five pages is current: the window was moved back.
C27_Witness ==
    /\ IsSome(paginationProps)
    /\ Get(paginationProps).totalPages > 5
    /\ Get(paginationProps).currentPage = Get(paginationProps).totalPages
    /\ Len(Get(pages)) = 5

(* --------------- handlers racing with creates and deletes ------------- *)

\* The store before the racing requests: both authors, no book yet.
InitRace ==
    /\ authors = {Author1, Author2}
    /\ books = {}
    /\ authorSeq = 2
    /\ bookSeq = 0
    /\ SearchIdle
    /\ StatsIdle
    /\ crudResponse = None
    /\ UiIdle

\* The searches that race: unfiltered, and filtered by title.
RaceRequests == {NoParams, [NoParams EXCEPT !.search = Some(<<"a">>)]}

\* A search request whose two store calls other requests' creates and
\* deletes of books may come between.
NextSearchRace ==
    \/ \E q \in RaceRequests : SearchParse(q)
    \/ SearchCount
    \/ SearchFindMany
    \/ SearchReturn
    \/ \E shape \in BookShapes : BookCreate(shape)
    \/ \E id \in 1..MaxBooks : BookDelete(id)

SpecSearchRace == InitRace /\ [][NextSearchRace]_vars

\* C24: in every search response, total is the number of matching books in
\* the store state the data was fetched from, so data never holds more
\* books than total reports, even when a create or delete of a book comes
\* between the count and the fetch.
C24_TotalOfFetchedState ==
    [][pc = "findMany" /\ pc' = "done" /\ Get(response').status = 200 =>
          /\ Get(response').body.pagination.total = BookCount(local.where)
          /\ Len(Get(response').body.data)
                <= Get(response').body.pagination.total]_vars

\* A stats request whose two store calls other requests' creates of books
\* and deletes of authors may come between.
NextStatsRace ==
    \/ \E id \in 1..MaxAuthors : StatsFindUnique(id)
    \/ \E id \in 1..MaxAuthors : StatsNotFound(id)
    \/ StatsFindMany
    \/ StatsReturn
    \/ \E shape \in BookShapes : BookCreate(shape)
    \/ \E id \in 1..MaxAuthors : AuthorDelete(id)

SpecStatsRace == InitRace /\ [][NextStatsRace]_vars

\* C25: the stats handler answers 200 with stats only for an author that
\* exists when its books are read; an author deleted between the existence
\* check and the book fetch is answered 404.
C25_StatsOnlyForExistingAuthor ==
    [][statsPc = "findMany" /\ statsPc' = "done" =>
          /\ Get(statsResponse').status = 200 => AuthorExists(Get(statsId))
          /\ ~AuthorExists(Get(statsId)) => Get(statsResponse').status = 404]_vars

(* --------------- the books page: filters, debounce, fetchBooks -------- *)

nonBooksPageVars ==
    <<storeVars, searchVars, statsVars, crudResponse, paginationVars, formVars>>

\* Values the filter and sort controls may be given.
ControlValues ==
    [searchTerm |-> {<<>>, <<"a">>},
     selectedGenre |-> {<<>>, <<"g">>},
     selectedAuthor |-> {<<>>, <<"B">>},
     sortBy |-> {"createdAt", "title"}]

DigitChar(d) ==
    CASE d = 0 -> "0" [] d = 1 -> "1" [] d = 2 -> "2" [] d = 3 -> "3"
      [] d = 4 -> "4" [] d = 5 -> "5" [] d = 6 -> "6" [] d = 7 -> "7"
      [] d = 8 -> "8" [] d = 9 -> "9"

\* currentPage.toString(), for a page number below 100.
toString(n) ==
    IF n < 10 THEN <<DigitChar(n)>>
    ELSE <<DigitChar(n \div 10), DigitChar(n % 10)>>

\* The state of a freshly mounted page.
initialBooksPage ==
    [books |-> Some([request |-> 0, empty |-> TRUE]),
     pagination |-> None,
     loading |-> TRUE, searching |-> FALSE,
     searchTerm |-> <<>>, selectedGenre |-> <<>>, selectedAuthor |-> <<>>,
     sortBy |-> "createdAt", order |-> "desc", currentPage |-> 1]

\* Lines 93-101: the query parameters fetchBooks builds from the state its
\* closure sees: a filter is sent only when it is not empty.
paramsOf(st) ==
    [search |-> IF st.searchTerm # <<>> THEN Some(st.searchTerm) ELSE None,
     genre |-> IF st.selectedGenre # <<>> THEN Some(st.selectedGenre) ELSE None,
     authorName |-> IF st.selectedAuthor # <<>> THEN Some(st.selectedAuthor)
                    ELSE None,
     page |-> Some(toString(st.currentPage)),
     limit |-> Some(<<"9">>),
     sortBy |-> Some(st.sortBy),
     order |-> Some(st.order)]

\* The values the debounce effect depends on.
depsOf(st) ==
    <<st.searchTerm, st.selectedGenre, st.selectedAuthor, st.sortBy, st.order,
      st.currentPage>>

\* Starts a timer for the new values and leaves the earlier one pending.
Rerender_noCleanup(old, new) ==
    timers' = IF depsOf(old) # depsOf(new)
              THEN timers \cup {paramsOf(new)}
              ELSE timers

\* Lines 72-78: when a dependency changed, the effect's cleanup clears the
\* timer of the previous render and the effect starts one for this render.
Rerender(old, new) ==
    timers' = IF depsOf(old) # depsOf(new)
              THEN (timers \ {paramsOf(old)}) \cup {paramsOf(new)}
              ELSE timers

\* Lines 90-103: fetchBooks up to its first await, for the parameters q.
IssueSearch(q) ==
    /\ issued < MaxRequests
    /\ issued' = issued + 1
    /\ lastRequest' = Some(q)
    /\ fetches' = fetches \cup {[request |-> issued + 1, page |-> pageOf(q)]}

\* Lines 67-78: the page mounts; the first effect calls fetchBooks, the
\* second starts the debounce timer.
BooksPageMount ==
    /\ booksPage = None
    /\ issued = 0
    /\ booksPage' = Some([initialBooksPage EXCEPT !.searching = TRUE])
    /\ IssueSearch(paramsOf(initialBooksPage))
    /\ timers' = {paramsOf(initialBooksPage)}
    /\ UNCHANGED alert
    /\ UNCHANGED nonBooksPageVars

\* The controls are on screen: the first fetch has finished.
ControlsShown ==
    /\ IsSome(booksPage)
    /\ ~Get(booksPage).loading

\* A user action that replaces the state by new.
SetState(new) ==
    /\ ControlsShown
    /\ new # Get(booksPage)
    /\ booksPage' = Some(new)
    /\ Rerender(Get(booksPage), new)
    /\ UNCHANGED <<fetches, lastRequest, issued, alert>>
    /\ UNCHANGED nonBooksPageVars

\* Lines 283-286
ChangeSearchTerm(v) ==
    /\ IsSome(booksPage) /\ v # Get(booksPage).searchTerm
    /\ SetState([Get(booksPage) EXCEPT !.searchTerm = v, !.currentPage = 1])

\* Changes the genre filter and keeps the page.
ChangeGenre_keepPage(v) ==
    /\ IsSome(booksPage) /\ v # Get(booksPage).selectedGenre
    /\ SetState([Get(booksPage) EXCEPT !.selectedGenre = v])

\* Lines 299-302
ChangeGenre(v) ==
    /\ IsSome(booksPage) /\ v # Get(booksPage).selectedGenre
    /\ SetState([Get(booksPage) EXCEPT !.selectedGenre = v, !.currentPage = 1])

\* Lines 322-325
ChangeAuthor(v) ==
    /\ IsSome(booksPage) /\ v # Get(booksPage).selectedAuthor
    /\ SetState([Get(booksPage) EXCEPT !.selectedAuthor = v, !.currentPage = 1])

\* Line 339
ChangeSortBy(v) ==
    /\ IsSome(booksPage) /\ v # Get(booksPage).sortBy
    /\ SetState([Get(booksPage) EXCEPT !.sortBy = v])

\* Line 347
ToggleOrder ==
    /\ IsSome(booksPage)
    /\ SetState([Get(booksPage) EXCEPT
                   !.order = IF @ = "asc" THEN "desc" ELSE "asc"])

\* Lines 454-462: the Pagination component is on screen.
PaginationShown ==
    /\ ControlsShown
    /\ ~Get(Get(booksPage).books).empty
    /\ IsSome(Get(booksPage).pagination)
    /\ Get(Get(booksPage).pagination).totalPages > 1

\* Lines 219-222: a Pagination button was clicked.
handlePageChange(page) ==
    /\ PaginationShown
    /\ page \in 1..Get(Get(booksPage).pagination).totalPages
    /\ SetState([Get(booksPage) EXCEPT !.currentPage = page])

\* Lines 224-231
clearFilters ==
    /\ IsSome(booksPage)
    /\ SetState([Get(booksPage) EXCEPT
                   !.searchTerm = <<>>, !.selectedGenre = <<>>,
                   !.selectedAuthor = <<>>, !.sortBy = "createdAt",
                   !.order = "desc", !.currentPage = 1])

\* Lines 73-75: a timer runs out and calls the fetchBooks of its render.
TimerFires(q) ==
    /\ q \in timers
    /\ timers' = timers \ {q}
    /\ IssueSearch(q)
    /\ booksPage' = Some([Get(booksPage) EXCEPT !.searching = TRUE])
    /\ UNCHANGED alert
    /\ UNCHANGED nonBooksPageVars

\* Lines 103-120: a 200 response arrives, for a result of totalPages pages.
FetchBooksOk(f, totalPages) ==
    /\ f \in fetches
    /\ IsSome(booksPage)
    /\ fetches' = fetches \ {f}
    /\ booksPage' =
          Some([Get(booksPage) EXCEPT
                  !.books = Some([request |-> f.request,
                                  empty |-> ~JsLt(f.page, Num(totalPages + 1))]),
                  !.pagination = Some([page |-> f.page, totalPages |-> totalPages]),
                  !.loading = FALSE, !.searching = FALSE])
    /\ UNCHANGED <<timers, lastRequest, issued, alert>>
    /\ UNCHANGED nonBooksPageVars

InitBooksPage ==
    /\ authors = {}
    /\ books = {}
    /\ authorSeq = 0
    /\ bookSeq = 0
    /\ SearchIdle
    /\ StatsIdle
    /\ crudResponse = None
    /\ UiIdle

NextBooksPage ==
    \/ BooksPageMount
    \/ \E v \in ControlValues.searchTerm : ChangeSearchTerm(v)
    \/ \E v \in ControlValues.selectedGenre : ChangeGenre(v)
    \/ \E v \in ControlValues.selectedAuthor : ChangeAuthor(v)
    \/ \E v \in ControlValues.sortBy : ChangeSortBy(v)
    \/ ToggleOrder
    \/ \E page \in 1..MaxShownPages : handlePageChange(page)
    \/ clearFilters
    \/ \E q \in timers : TimerFires(q)
    \/ \E f \in fetches : \E totalPages \in 1..MaxShownPages :
          FetchBooksOk(f, totalPages)

SpecBooksPage == InitBooksPage /\ [][NextBooksPage]_vars

(* --------------- properties of the books page ------------------------- *)

\* C23: once every search request the books page issued has completed, the
\* books and the pagination on screen are those of the response to the
\* request issued last, whatever order the responses arrived in.
C23_LatestRequestShown ==
    IsSome(booksPage) /\ issued > 0 /\ fetches = {} =>
        /\ Get(Get(booksPage).books).request = issued
        /\ Get(Get(booksPage).pagination).page = pageOf(Get(lastRequest))

\* The three filters of a page state.
FiltersOf(st) == <<st.searchTerm, st.selectedGenre, st.selectedAuthor>>

\* The three filters a request carries.
RequestFilters(q) == <<q.search, q.genre, q.authorName>>

\* A step that changes a filter of the page.
FilterChanged ==
    /\ IsSome(booksPage) /\ IsSome(booksPage')
    /\ FiltersOf(Get(booksPage')) # FiltersOf(Get(booksPage))

\* A step that issues a search request after an earlier one.
RequestIssued == issued > 0 /\ issued' = issued + 1

\* What clearFilters leaves of a page state.
Cleared(st) ==
    /\ FiltersOf(st) = <<<<>>, <<>>, <<>>>>
    /\ st.sortBy = "createdAt" /\ st.order = "desc" /\ st.currentPage = 1

\* C28 as stated: a filter change sets currentPage to 1 in the same step,
\* clearFilters resets filters, sort, order and page, and no search request
\* is issued that carries a filter value changed since the request before
\* it together with a page other than 1.
C28_ChangedFilterOnlyWithPageOne ==
    [][/\ FilterChanged => Get(booksPage').currentPage = 1
       /\ clearFilters => Cleared(Get(booksPage'))
       /\ RequestIssued
            /\ RequestFilters(Get(lastRequest')) # RequestFilters(Get(lastRequest))
            => Get(lastRequest').page = Some(<<"1">>)]_vars

\* C28: a filter change sets currentPage to 1 in the same step, clearFilters
\* resets filters, sort, order and page, and the search request that either
\* of them schedules carries page 1.
C28_FilterChangeSchedulesPageOne ==
    [][/\ FilterChanged => Get(booksPage').currentPage = 1
       /\ clearFilters => Cleared(Get(booksPage'))
       /\ FilterChanged \/ clearFilters =>
            /\ timers' # {}
            /\ \A q \in timers' :
                  /\ q.page = Some(<<"1">>)
                  /\ RequestFilters(q) = RequestFilters(paramsOf(Get(booksPage')))]_vars

\* On page 2 of a result the genre filter was set: the page is 1 again and
\* the pending request carries the genre and page 1.
C28_Witness ==
    /\ IsSome(booksPage)
    /\ IsSome(Get(booksPage).pagination)
    /\ Get(Get(booksPage).pagination).page = Num(2)
    /\ Get(booksPage).selectedGenre # <<>>
    /\ Get(booksPage).currentPage = 1
    /\ timers = {paramsOf(Get(booksPage))}

\* C30: at most one debounce timer is pending; a change of a filter, sort,
\* order or page value cancels the pending timer, starts a new one and
\* issues no request itself; the request a timer issues when it runs out
\* carries the values the page has then, and leaves no timer pending.
C30_OneTimerOneRequest ==
    [][/\ Cardinality(timers') <= 1
       /\ IsSome(booksPage) /\ IsSome(booksPage')
            /\ depsOf(Get(booksPage')) # depsOf(Get(booksPage))
            => /\ timers' = {paramsOf(Get(booksPage'))}
               /\ issued' = issued
       /\ RequestIssued
            => /\ lastRequest' = Some(paramsOf(Get(booksPage)))
               /\ timers' = {}]_vars

\* After the first request, a burst changed the search term and the order;
\* the one request issued since carries both.
C30_Witness ==
    /\ IsSome(booksPage)
    /\ issued = 2
    /\ timers = {}
    /\ Get(booksPage).searchTerm # <<>>
    /\ Get(booksPage).order = "asc"
    /\ lastRequest = Some(paramsOf(Get(booksPage)))

(* --------------- the forms of the pages: submit and delete ------------ *)

nonFormVars ==
    <<storeVars, searchVars, statsVars, crudResponse, paginationVars,
      booksPage, timers, fetches, lastRequest, issued>>

\* The authors page, the books page and the page of one author.
Pages == {"authors", "books", "author"}

\* The author whose page the author page is.
authorId == 1

\* The records a list shows.
RecordIds == {1, 2}

\* What the user types into the form's required field.
FormValues == {<<"N">>, <<"M">>}

\* The outcomes of a fetch: a success response, an error response with or
\* without a message, a rejected call.
Outcomes ==
    {[kind |-> "ok", error |-> None],
     [kind |-> "error", error |-> Some("mensaje del servidor")],
     [kind |-> "error", error |-> None],
     [kind |-> "throws", error |-> Some("Failed to fetch")]}

\* The default text of throw new Error(error.error || ...) in a submit.
submitError(page, editing) ==
    CASE page = "authors" -> "Error al guardar autor"
      [] page = "books" -> "Error al guardar libro"
      [] page = "author" -> IF IsSome(editing) THEN "Error al actualizar autor"
                            ELSE "Error al crear libro"

submitSuccess(page, editing) ==
    CASE page = "authors" -> IF IsSome(editing) THEN "Autor actualizado correctamente"
                             ELSE "Autor creado correctamente"
      [] page = "books" -> IF IsSome(editing) THEN "Libro actualizado correctamente"
                           ELSE "Libro creado correctamente"
      [] page = "author" -> IF IsSome(editing) THEN "Autor actualizado correctamente"
                            ELSE "Libro creado correctamente"

deleteError(page) ==
    IF page = "authors" THEN "Error al eliminar autor" ELSE "Error al eliminar libro"

deleteSuccess(page) ==
    IF page = "authors" THEN "Autor eliminado correctamente"
    ELSE "Libro eliminado correctamente"

fetchError(page) ==
    CASE page = "authors" -> "Error al cargar autores"
      [] page = "books" -> "Error al buscar libros"
      [] page = "author" -> "Error al cargar datos del autor"

\* The message a failed submit or delete alerts: the server's, the default
\* text when the error response carries none, the rejection's own.
messageOf(outcome, default) == OrElseStr(outcome.error, default)

\* The request a submit sends.
submitRequest(page, editing) ==
    CASE page = "authors" ->
            IF IsSome(editing)
            THEN [method |-> "PUT", path |-> "/api/authors/id", id |-> editing]
            ELSE [method |-> "POST", path |-> "/api/authors", id |-> None]
      [] page = "books" ->
            IF IsSome(editing)
            THEN [method |-> "PUT", path |-> "/api/books/id", id |-> editing]
            ELSE [method |-> "POST", path |-> "/api/books", id |-> None]
      [] page = "author" ->
            IF IsSome(editing)
            THEN [method |-> "PUT", path |-> "/api/authors/id", id |-> Some(authorId)]
            ELSE [method |-> "POST", path |-> "/api/books", id |-> None]

deleteRequest(page, id) ==
    [method |-> "DELETE",
     path |-> IF page = "authors" THEN "/api/authors/id" ELSE "/api/books/id",
     id |-> Some(id)]

\* The request with which a page loads its list.
fetchRequest(page) ==
    CASE page = "authors" -> [method |-> "GET", path |-> "/api/authors", id |-> None]
      [] page = "books" -> [method |-> "GET", path |-> "/api/books/search", id |-> None]
      [] page = "author" ->
            [method |-> "GET", path |-> "/api/authors/id", id |-> Some(authorId)]

\* The state of a page as it mounts: loading, nothing listed, no modal.
initialForm ==
    [isModalOpen |-> FALSE, editing |-> None, formData |-> <<>>,
     submitting |-> FALSE, loading |-> TRUE, searching |-> FALSE, list |-> 0]

\* No handler is running; answer is what the last one received.
Idle == [pc |-> "idle", id |-> None, answer |-> "none"]

\* The first line of a fetch of the list: setLoading(true) on the authors
\* page and the author page, setSearching(true) on the books page.
fetchStarted(page, f) ==
    IF page = "books" THEN [f EXCEPT !.searching = TRUE]
    ELSE [f EXCEPT !.loading = TRUE]

\* Leaves the flags of a fetch set when the fetch fails.
fetchEnded_stuckOnFailure(page, f, outcome) ==
    IF outcome.kind = "ok"
    THEN [f EXCEPT !.list = IF @ < 0 THEN 1 ELSE @ + 1,
                   !.loading = FALSE, !.searching = FALSE]
    ELSE f

\* The rest of a fetch of the list: a success response replaces the list; an
\* error response on the authors and books pages, read without a look at
\* response.ok, leaves an invalid list; finally the flags are reset.
fetchEnded(page, f, outcome) ==
    [f EXCEPT !.list = IF outcome.kind = "ok" THEN (IF @ < 0 THEN 1 ELSE @ + 1)
                       ELSE IF outcome.kind = "error" /\ page # "author" THEN 0 - 1
                       ELSE @,
              !.loading = FALSE, !.searching = FALSE]

\* handleCloseModal on the authors and books pages, the setters after the
\* refetch on the author page: the edit form of the author keeps its text.
modalClosed(page, f) ==
    [f EXCEPT !.isModalOpen = FALSE,
              !.editing = None,
              !.formData = IF page = "author" /\ IsSome(f.editing) THEN @ ELSE <<>>]

\* A page opens and loads its list.
FormsMount(page) ==
    /\ formPage = "none" /\ handler = None
    /\ formPage' = page
    /\ form' = Some(fetchStarted(page, initialForm))
    /\ handler' = Some([pc |-> "mount", id |-> None, answer |-> "none"])
    /\ sent' = <<fetchRequest(page)>>
    /\ UNCHANGED alert
    /\ UNCHANGED nonFormVars

\* The page shows its content and no handler is running.
PageReady ==
    /\ formPage \in Pages
    /\ handler # None /\ Get(handler).pc = "idle"
    /\ ~Get(form).loading

\* handleOpenModal(record?) and handleOpenEditModal: the form is filled from
\* the record to edit; the form for a new record is empty, on the author
\* page it keeps what it held.
OpenModal(editing, v) ==
    /\ PageReady
    /\ ~Get(form).isModalOpen
    /\ form' = Some([Get(form) EXCEPT
                       !.isModalOpen = TRUE,
                       !.editing = editing,
                       !.formData = IF IsSome(editing) THEN v
                                    ELSE IF formPage = "author" THEN @
                                    ELSE <<>>])
    /\ UNCHANGED <<formPage, handler, sent, alert>>
    /\ UNCHANGED nonFormVars

\* The cancel button, which is disabled while a submit is under way.
CloseModal ==
    /\ PageReady
    /\ Get(form).isModalOpen
    /\ ~Get(form).submitting
    /\ form' = Some(modalClosed(formPage, Get(form)))
    /\ UNCHANGED <<formPage, handler, sent, alert>>
    /\ UNCHANGED nonFormVars

\* The user types into the form; its inputs stay enabled during a submit.
TypeForm(v) ==
    /\ formPage \in Pages
    /\ Get(form).isModalOpen
    /\ ~Get(form).loading
    /\ v # Get(form).formData
    /\ form' = Some([Get(form) EXCEPT !.formData = v])
    /\ UNCHANGED <<formPage, handler, sent, alert>>
    /\ UNCHANGED nonFormVars

\* handleSubmit, handleUpdateAuthor, handleCreateBook up to the first await.
Submit ==
    /\ PageReady
    /\ Get(form).isModalOpen
    /\ ~Get(form).submitting
    /\ Len(sent) < MaxSent
    /\ form' = Some([Get(form) EXCEPT !.submitting = TRUE])
    /\ sent' = Append(sent, submitRequest(formPage, Get(form).editing))
    /\ handler' = Some([pc |-> "submit", id |-> Get(form).editing, answer |-> "none"])
    /\ UNCHANGED <<formPage, alert>>
    /\ UNCHANGED nonFormVars

\* Refetches the list after an error response as after a success.
SubmitAnswered_refetchAlways(outcome) ==
    /\ handler # None /\ Get(handler).pc = "submit"
    /\ IF outcome.kind # "throws"
       THEN /\ form' = Some(fetchStarted(formPage, Get(form)))
            /\ sent' = Append(sent, fetchRequest(formPage))
            /\ handler' = Some([Get(handler) EXCEPT !.pc = "submitFetch",
                                                   !.answer = outcome.kind])
            /\ UNCHANGED alert
       ELSE /\ alert' = messageOf(outcome, submitError(formPage, Get(handler).id))
            /\ form' = Some([Get(form) EXCEPT !.submitting = FALSE])
            /\ handler' = Some([Idle EXCEPT !.answer = outcome.kind])
            /\ UNCHANGED sent
    /\ UNCHANGED formPage
    /\ UNCHANGED nonFormVars

\* The answer to the submit arrives: on success the list is fetched again;
\* otherwise the catch block alerts and finally resets submitting.
SubmitAnswered(outcome) ==
    /\ handler # None /\ Get(handler).pc = "submit"
    /\ IF outcome.kind = "ok"
       THEN /\ form' = Some(fetchStarted(formPage, Get(form)))
            /\ sent' = Append(sent, fetchRequest(formPage))
            /\ handler' = Some([Get(handler) EXCEPT !.pc = "submitFetch",
                                                   !.answer = outcome.kind])
            /\ UNCHANGED alert
       ELSE /\ alert' = messageOf(outcome, submitError(formPage, Get(handler).id))
            /\ form' = Some([Get(form) EXCEPT !.submitting = FALSE])
            /\ handler' = Some([Idle EXCEPT !.answer = outcome.kind])
            /\ UNCHANGED sent
    /\ UNCHANGED formPage
    /\ UNCHANGED nonFormVars

\* Sends the DELETE at the click, without asking.
ClickDelete_noConfirm(id) ==
    /\ PageReady
    /\ ~Get(form).isModalOpen
    /\ Len(sent) < MaxSent
    /\ sent' = Append(sent, deleteRequest(formPage, id))
    /\ handler' = Some([pc |-> "delete", id |-> Some(id), answer |-> "none"])
    /\ UNCHANGED <<formPage, form, alert>>
    /\ UNCHANGED nonFormVars

\* handleDelete, handleDeleteBook: the click opens the confirm dialog for
\* the record.
ClickDelete(id) ==
    /\ PageReady
    /\ ~Get(form).isModalOpen
    /\ Len(sent) < MaxSent
    /\ handler' = Some([pc |-> "confirm", id |-> Some(id), answer |-> "none"])
    /\ UNCHANGED <<formPage, form, sent, alert>>
    /\ UNCHANGED nonFormVars

\* The user declines: the handler returns.
ConfirmCancel ==
    /\ handler # None /\ Get(handler).pc = "confirm"
    /\ handler' = Some(Idle)
    /\ UNCHANGED <<formPage, form, sent, alert>>
    /\ UNCHANGED nonFormVars

\* The user confirms: the DELETE for the record is sent.
ConfirmOk ==
    /\ handler # None /\ Get(handler).pc = "confirm"
    /\ sent' = Append(sent, deleteRequest(formPage, Get(Get(handler).id)))
    /\ handler' = Some([Get(handler) EXCEPT !.pc = "delete"])
    /\ UNCHANGED <<formPage, form, alert>>
    /\ UNCHANGED nonFormVars

\* The answer to the DELETE arrives: on success the list is fetched again;
\* otherwise the catch block alerts.
DeleteAnswered(outcome) ==
    /\ handler # None /\ Get(handler).pc = "delete"
    /\ IF outcome.kind = "ok"
       THEN /\ form' = Some(fetchStarted(formPage, Get(form)))
            /\ sent' = Append(sent, fetchRequest(formPage))
            /\ handler' = Some([Get(handler) EXCEPT !.pc = "deleteFetch",
                                                   !.answer = outcome.kind])
            /\ UNCHANGED alert
       ELSE /\ alert' = messageOf(outcome, deleteError(formPage))
            /\ handler' = Some([Idle EXCEPT !.answer = outcome.kind])
            /\ UNCHANGED <<form, sent>>
    /\ UNCHANGED formPage
    /\ UNCHANGED nonFormVars

\* The fetch of the list ends, and the handler that awaited it goes on to
\* its end: a submit closes the modal, alerts success and resets
\* submitting; a delete alerts success. On the author page a failed fetch
\* alerts and leaves for the authors page, and a successful one is followed
\* by the request for the stats.
FetchAnswered(outcome) ==
    /\ handler # None
    /\ Get(handler).pc \in {"mount", "submitFetch", "deleteFetch"}
    /\ LET pc_ == Get(handler).pc
           f == fetchEnded(formPage, Get(form), outcome)
       IN  /\ form' = Some(IF pc_ = "submitFetch"
                           THEN [modalClosed(formPage, f) EXCEPT !.submitting = FALSE]
                           ELSE f)
           /\ alert' = CASE pc_ = "submitFetch" ->
                              submitSuccess(formPage, Get(handler).id)
                         [] pc_ = "deleteFetch" -> deleteSuccess(formPage)
                         [] pc_ = "mount" ->
                              IF outcome.kind = "ok" THEN alert
                              ELSE fetchError(formPage)
    /\ sent' = IF formPage = "author" /\ outcome.kind = "ok"
               THEN Append(sent, [method |-> "GET", path |-> "/api/authors/id/stats",
                                  id |-> Some(authorId)])
               ELSE sent
    /\ formPage' = IF formPage = "author" /\ outcome.kind # "ok" THEN "left"
                   ELSE formPage
    /\ handler' = Some([Idle EXCEPT !.answer = outcome.kind])
    /\ UNCHANGED nonFormVars

InitForms ==
    /\ authors = {}
    /\ books = {}
    /\ authorSeq = 0
    /\ bookSeq = 0
    /\ SearchIdle
    /\ StatsIdle
    /\ crudResponse = None
    /\ UiIdle

\* One handler of the page runs at a time.
NextForms ==
    \/ \E page \in Pages : FormsMount(page)
    \/ \E editing \in Opt(RecordIds), v \in FormValues : OpenModal(editing, v)
    \/ CloseModal
    \/ \E v \in FormValues : TypeForm(v)
    \/ Submit
    \/ \E outcome \in Outcomes : SubmitAnswered(outcome)
    \/ \E id \in RecordIds : ClickDelete(id)
    \/ ConfirmCancel
    \/ ConfirmOk
    \/ \E outcome \in Outcomes : DeleteAnswered(outcome)
    \/ \E outcome \in Outcomes : FetchAnswered(outcome)

SpecForms == InitForms /\ [][NextForms]_vars

\* Every request is answered or rejected in the end.
SpecFormsFair ==
    /\ SpecForms
    /\ WF_vars(\E outcome \in Outcomes : SubmitAnswered(outcome))
    /\ WF_vars(\E outcome \in Outcomes : DeleteAnswered(outcome))
    /\ WF_vars(\E outcome \in Outcomes : FetchAnswered(outcome))

(* --------------- properties of the forms ------------------------------ *)

\* The texts of the success notifications.
SuccessTexts ==
    {submitSuccess(page, editing) : page \in Pages, editing \in Opt(RecordIds)}
    \cup {deleteSuccess(page) : page \in Pages}

\* A step in which a submit receives an answer that is not a success.
SubmitFails ==
    /\ handler # None /\ Get(handler).pc = "submit"
    /\ handler' # handler
    /\ Get(handler').answer \in {"error", "throws"}

\* C21: when the submit of a form gets a non-success answer, the page shows
\* the error notification and no success notification, does not fetch the
\* list again, leaves the modal open with the form data as entered, and
\* sends nothing more until the user acts again.
C21_FailedSubmitStaysPut ==
    [][SubmitFails =>
          /\ alert' \notin SuccessTexts
          /\ alert' \in {"mensaje del servidor", "Failed to fetch",
                         submitError(formPage, Get(handler).id)}
          /\ sent' = sent
          /\ Get(form').isModalOpen
          /\ Get(form').formData = Get(form).formData
          /\ Get(form').list = Get(form).list
          /\ ~Get(form').loading /\ ~Get(form').searching
          /\ Get(handler').pc = "idle"]_vars

\* An update was answered with an error response that carries no message:
\* the default text is shown and the modal still holds the form.
C21_Witness ==
    /\ handler # None /\ Get(handler).pc = "idle" /\ Get(handler).answer = "error"
    /\ formPage = "author"
    /\ alert = "Error al actualizar autor"
    /\ Get(form).isModalOpen
    /\ Get(form).formData = <<"M">>
    /\ ~Get(form).submitting

\* The request sent last, when the step sent one.
Sends(method) ==
    /\ Len(sent') = Len(sent) + 1
    /\ sent'[Len(sent')].method = method

\* C22: a DELETE is sent only when the user has confirmed the dialog for
\* that record; when the user declines, nothing is sent and the list on
\* screen stays as it is.
C22_DeleteOnlyWhenConfirmed ==
    [][/\ Sends("DELETE") =>
            /\ handler # None /\ Get(handler).pc = "confirm"
            /\ sent'[Len(sent')].id = Get(handler).id
       /\ handler # None /\ Get(handler).pc = "confirm"
            /\ Get(handler').pc = "idle"
            => sent' = sent /\ form' = form]_vars

\* The DELETE for record 2 is under way on the books page.
C22_Witness ==
    /\ handler # None /\ Get(handler).pc = "delete"
    /\ formPage = "books"
    /\ sent[Len(sent)] = deleteRequest("books", 2)

Submitting == form # None /\ Get(form).submitting

Loading == form # None /\ Get(form).loading

Searching == form # None /\ Get(form).searching

\* C29: the submitting flag set by a submit is false again once the request
\* has completed, with a success, an error response or a rejection; so are
\* the loading and searching flags after every fetch.
C29_FlagsAreReset ==
    /\ Submitting ~> ~Submitting
    /\ Loading ~> ~Loading
    /\ Searching ~> ~Searching

\* A submit was rejected by the network and submitting is false again.
C29_Witness ==
    /\ handler # None /\ Get(handler).pc = "idle" /\ Get(handler).answer = "throws"
    /\ alert = "Failed to fetch"
    /\ Get(form).isModalOpen
    /\ ~Submitting /\ ~Loading /\ ~Searching

====
